---------------------------- MODULE Spec2Model ----------------------------
(***************************************************************************)
(* A model of package sqlitemeta (src/sqlitemeta.go): the schema-scoping   *)
(* layer, the query construction, the folding of result rows into records  *)
(* and the two sql.Scanner implementations, run against a model of the     *)
(* SQLite engine behind database/sql.                                      *)
(*                                                                         *)
(* Text is modelled as Go models it: a string is a sequence of bytes       *)
(* (0..255), UTF-8 encoded.  Case conversions decode runes, map them and   *)
(* encode them again, as strings.Map / strings.ToUpper / strings.ToLower   *)
(* do.                                                                     *)
(***************************************************************************)
EXTENDS Integers, Sequences, FiniteSets, TLC

(***************************************************************************)
(* Sequence helpers.                                                       *)
(***************************************************************************)
Range(s) == { s[i] : i \in DOMAIN s }

RECURSIVE Concat(_)
Concat(ss) == IF ss = <<>> THEN <<>> ELSE Head(ss) \o Concat(Tail(ss))

StartsWith(s, p) == Len(p) <= Len(s) /\ SubSeq(s, 1, Len(p)) = p
EndsWith(s, p)   == Len(p) <= Len(s) /\ SubSeq(s, Len(s) - Len(p) + 1, Len(s)) = p
Contains(s, p)   == \E i \in 0..(Len(s) - Len(p)) : SubSeq(s, i + 1, i + Len(p)) = p

(* memcmp order on byte strings: the order of SQLite's BINARY collation.   *)
RECURSIVE BytesLess(_, _)
BytesLess(a, b) ==
    IF b = <<>> THEN FALSE
    ELSE IF a = <<>> THEN TRUE
    ELSE IF Head(a) # Head(b) THEN Head(a) < Head(b)
    ELSE BytesLess(Tail(a), Tail(b))

(***************************************************************************)
(* UTF-8, as unicode/utf8 decodes and encodes it.  An invalid byte decodes *)
(* to RuneError (U+FFFD) of width 1.                                       *)
(***************************************************************************)
RuneError == 65533

IsCont(b) == b >= 128 /\ b <= 191

RuneWidth(b) ==
    LET n == Len(b) IN
    CASE b[1] < 128 -> 1
      [] b[1] >= 194 /\ b[1] <= 223 /\ n >= 2 /\ IsCont(b[2]) -> 2
      [] b[1] >= 224 /\ b[1] <= 239 /\ n >= 3 /\ IsCont(b[3])
           /\ b[2] >= (IF b[1] = 224 THEN 160 ELSE 128)
           /\ b[2] <= (IF b[1] = 237 THEN 159 ELSE 191) -> 3
      [] b[1] >= 240 /\ b[1] <= 244 /\ n >= 4 /\ IsCont(b[3]) /\ IsCont(b[4])
           /\ b[2] >= (IF b[1] = 240 THEN 144 ELSE 128)
           /\ b[2] <= (IF b[1] = 244 THEN 143 ELSE 191) -> 4
      [] OTHER -> 1

DecodeRune(b) ==
    LET w == RuneWidth(b) IN
    CASE w = 2 -> (b[1] - 192) * 64 + (b[2] - 128)
      [] w = 3 -> (b[1] - 224) * 4096 + (b[2] - 128) * 64 + (b[3] - 128)
      [] w = 4 -> (b[1] - 240) * 262144 + (b[2] - 128) * 4096
                    + (b[3] - 128) * 64 + (b[4] - 128)
      [] OTHER -> IF b[1] < 128 THEN b[1] ELSE RuneError

RECURSIVE Runes(_)
Runes(b) ==
    IF b = <<>> THEN <<>>
    ELSE <<DecodeRune(b)>> \o Runes(SubSeq(b, RuneWidth(b) + 1, Len(b)))

EncodeRune(r) ==
    CASE r < 128 -> <<r>>
      [] r >= 128 /\ r < 2048 -> <<192 + (r \div 64), 128 + (r % 64)>>
      [] r >= 2048 /\ r < 65536 ->
           <<224 + (r \div 4096), 128 + ((r \div 64) % 64), 128 + (r % 64)>>
      [] OTHER ->
           <<240 + (r \div 262144), 128 + ((r \div 4096) % 64),
             128 + ((r \div 64) % 64), 128 + (r % 64)>>

RECURSIVE EncodeRunes(_)
EncodeRunes(rs) ==
    IF rs = <<>> THEN <<>> ELSE EncodeRune(Head(rs)) \o EncodeRunes(Tail(rs))

(***************************************************************************)
(* unicode.ToUpper / unicode.ToLower on the code points that occur in the  *)
(* model's inputs: ASCII, Latin-1 and the letters whose case partner is an *)
(* ASCII letter (U+0130, U+0131, U+017F, U+212A).                          *)
(***************************************************************************)
UnicodeToUpper(r) ==
    CASE r >= 97 /\ r <= 122 -> r - 32
      [] r >= 224 /\ r <= 254 /\ r # 247 -> r - 32
      [] r = 181 -> 924
      [] r = 255 -> 376
      [] r = 305 -> 73
      [] r = 383 -> 83
      [] OTHER -> r

UnicodeToLower(r) ==
    CASE r >= 65 /\ r <= 90 -> r + 32
      [] r >= 192 /\ r <= 222 /\ r # 215 -> r + 32
      [] r = 304 -> 105
      [] r = 8490 -> 107
      [] r = 8491 -> 229
      [] OTHER -> r

(* strings.ToUpper and strings.ToLower: every rune of s, mapped and        *)
(* encoded again.                                                          *)
ToUpper(s) ==
    LET rs == Runes(s)
    IN  EncodeRunes([i \in DOMAIN rs |-> UnicodeToUpper(rs[i])])

ToLower(s) ==
    LET rs == Runes(s)
    IN  EncodeRunes([i \in DOMAIN rs |-> UnicodeToLower(rs[i])])

(* sqlower: strings.Map over a mapping that changes 'A'..'Z' only.         *)
sqlowerRune(r) == IF r >= 65 /\ r <= 90 THEN 97 + r - 65 ELSE r
sqlower(s) ==
    LET rs == Runes(s)
    IN  EncodeRunes([i \in DOMAIN rs |-> sqlowerRune(rs[i])])

(***************************************************************************)
(* Go values.  An error is nil or carries its message; a slice is the      *)
(* sequence of its elements (the nil slice has none).  An interface{}      *)
(* value handed to Scan is its dynamic type and its value: the bytes of a  *)
(* string or of a []byte, and for any other type the text %v prints.       *)
(***************************************************************************)
NilError == [nil |-> TRUE, msg |-> <<>>]
Errorf(msg) == [nil |-> FALSE, msg |-> msg]

(* fmt's %T of the dynamic types the model hands to Scan.                  *)
FmtT(src) ==
    CASE src.kind = "string" -> <<115, 116, 114, 105, 110, 103>>       \* string
      [] src.kind = "[]byte" -> <<91, 93, 117, 105, 110, 116, 56>>     \* []uint8
      [] src.kind = "int"    -> <<105, 110, 116>>                      \* int
      [] OTHER               -> <<60, 110, 105, 108, 62>>              \* <nil>

(* fmt's %q: the text in double quotes, '"' and '\' escaped.  The inputs   *)
(* hold no control characters and no invalid UTF-8.                        *)
RECURSIVE QuoteBody(_)
QuoteBody(s) ==
    IF s = <<>> THEN <<>>
    ELSE (IF Head(s) \in {34, 92} THEN <<92, Head(s)>> ELSE <<Head(s)>>)
           \o QuoteBody(Tail(s))

FmtQ(s) == <<34>> \o QuoteBody(s) \o <<34>>

toString(v) ==
    CASE v.kind = "string" -> [s |-> v.val, ok |-> TRUE]
      [] v.kind = "[]byte" -> [s |-> v.val, ok |-> TRUE]
      [] OTHER             -> [s |-> <<>>, ok |-> FALSE]

(***************************************************************************)
(* ForeignKeyAction and IndexType, and their literals.                     *)
(***************************************************************************)
ForeignKeyActionNone       == 0
ForeignKeyActionRestrict   == 1
ForeignKeyActionSetNull    == 2
ForeignKeyActionSetDefault == 3
ForeignKeyActionCascade    == 4

IndexTypeNormal     == 0
IndexTypeUnique     == 1
IndexTypePrimaryKey == 2

(* The string literals of the two Scan methods. *)
ScanLit ==
    [ NO_ACTION |->  \* "NO ACTION"
          <<78, 79, 32, 65, 67, 84, 73, 79, 78>>,
      RESTRICT |->  \* "RESTRICT"
          <<82, 69, 83, 84, 82, 73, 67, 84>>,
      SET_NULL |->  \* "SET NULL"
          <<83, 69, 84, 32, 78, 85, 76, 76>>,
      SET_DEFAULT |->  \* "SET DEFAULT"
          <<83, 69, 84, 32, 68, 69, 70, 65, 85, 76, 84>>,
      CASCADE |->  \* "CASCADE"
          <<67, 65, 83, 67, 65, 68, 69>>,
      c |->  \* "c"
          <<99>>,
      u |->  \* "u"
          <<117>>,
      pk |->  \* "pk"
          <<112, 107>>,
      invalid_FKA |->  \* "invalid ForeignKeyAction: "
          <<105, 110, 118, 97, 108, 105, 100, 32, 70, 111, 114, 101, 105,
            103, 110, 75, 101, 121, 65, 99, 116, 105, 111, 110, 58, 32>>,
      unsupported_FKA |->  \* "unsupported ForeignKeyAction: "
          <<117, 110, 115, 117, 112, 112, 111, 114, 116, 101, 100, 32,
            70, 111, 114, 101, 105, 103, 110, 75, 101, 121, 65, 99, 116,
            105, 111, 110, 58, 32>>,
      invalid_IT |->  \* "invalid IndexType: "
          <<105, 110, 118, 97, 108, 105, 100, 32, 73, 110, 100, 101, 120,
            84, 121, 112, 101, 58, 32>>,
      unsupported_IT |->  \* "unsupported IndexType: "
          <<117, 110, 115, 117, 112, 112, 111, 114, 116, 101, 100, 32,
            73, 110, 100, 101, 120, 84, 121, 112, 101, 58, 32>> ]

(* The switch of ForeignKeyAction.Scan quoting the upper-cased text in its  *)
(* error.                                                                  *)
ForeignKeyActionSwitch_upper(recv, u, s) ==
    CASE u = ScanLit.NO_ACTION   -> [val |-> ForeignKeyActionNone, err |-> NilError]
      [] u = ScanLit.RESTRICT    -> [val |-> ForeignKeyActionRestrict, err |-> NilError]
      [] u = ScanLit.SET_NULL    -> [val |-> ForeignKeyActionSetNull, err |-> NilError]
      [] u = ScanLit.SET_DEFAULT -> [val |-> ForeignKeyActionSetDefault, err |-> NilError]
      [] u = ScanLit.CASCADE     -> [val |-> ForeignKeyActionCascade, err |-> NilError]
      [] OTHER -> [val |-> recv,
                   err |-> Errorf(ScanLit.unsupported_FKA \o FmtQ(u))]

(* The switch of ForeignKeyAction.Scan on u, the text s in upper case: the *)
(* receiver's value afterwards and the error returned.                     *)
ForeignKeyActionSwitch(recv, u, s) ==
    CASE u = ScanLit.NO_ACTION   -> [val |-> ForeignKeyActionNone, err |-> NilError]
      [] u = ScanLit.RESTRICT    -> [val |-> ForeignKeyActionRestrict, err |-> NilError]
      [] u = ScanLit.SET_NULL    -> [val |-> ForeignKeyActionSetNull, err |-> NilError]
      [] u = ScanLit.SET_DEFAULT -> [val |-> ForeignKeyActionSetDefault, err |-> NilError]
      [] u = ScanLit.CASCADE     -> [val |-> ForeignKeyActionCascade, err |-> NilError]
      [] OTHER -> [val |-> recv,
                   err |-> Errorf(ScanLit.unsupported_FKA \o FmtQ(s))]

(* ForeignKeyAction.Scan comparing the text as it is, not upper-cased.     *)
ForeignKeyActionScan_exact(recv, src) ==
    LET c == toString(src)
    IN  IF ~c.ok
        THEN [val |-> recv,
              err |-> Errorf(ScanLit.invalid_FKA \o FmtT(src) \o <<32>> \o src.val)]
        ELSE ForeignKeyActionSwitch(recv, c.s, c.s)

(* ForeignKeyAction.Scan as a function of the receiver's value and src.    *)
ForeignKeyActionScan(recv, src) ==
    LET c == toString(src)
    IN  IF ~c.ok
        THEN [val |-> recv,
              err |-> Errorf(ScanLit.invalid_FKA \o FmtT(src) \o <<32>> \o src.val)]
        ELSE ForeignKeyActionSwitch(recv, ToUpper(c.s), c.s)

(* The switch of IndexType.Scan setting the receiver to the first type     *)
(* when the text is not recognised.                                        *)
IndexTypeSwitch_zero(recv, l, s) ==
    CASE l = ScanLit.c  -> [val |-> IndexTypeNormal, err |-> NilError]
      [] l = ScanLit.u  -> [val |-> IndexTypeUnique, err |-> NilError]
      [] l = ScanLit.pk -> [val |-> IndexTypePrimaryKey, err |-> NilError]
      [] OTHER -> [val |-> IndexTypeNormal,
                   err |-> Errorf(ScanLit.unsupported_IT \o FmtQ(s))]

(* The switch of IndexType.Scan on l, the text s in lower case.            *)
IndexTypeSwitch(recv, l, s) ==
    CASE l = ScanLit.c  -> [val |-> IndexTypeNormal, err |-> NilError]
      [] l = ScanLit.u  -> [val |-> IndexTypeUnique, err |-> NilError]
      [] l = ScanLit.pk -> [val |-> IndexTypePrimaryKey, err |-> NilError]
      [] OTHER -> [val |-> recv,
                   err |-> Errorf(ScanLit.unsupported_IT \o FmtQ(s))]

(* IndexType.Scan taking an unrecognised text for the zero value.          *)
IndexTypeScan_default(recv, src) ==
    LET c == toString(src)
        l == ToLower(c.s)
    IN  IF ~c.ok
        THEN [val |-> recv,
              err |-> Errorf(ScanLit.invalid_IT \o FmtT(src) \o <<32>> \o src.val)]
        ELSE CASE l = ScanLit.u  -> [val |-> IndexTypeUnique, err |-> NilError]
               [] l = ScanLit.pk -> [val |-> IndexTypePrimaryKey, err |-> NilError]
               [] OTHER -> [val |-> IndexTypeNormal, err |-> NilError]

(* IndexType.Scan, likewise.                                               *)
IndexTypeScan(recv, src) ==
    LET c == toString(src)
    IN  IF ~c.ok
        THEN [val |-> recv,
              err |-> Errorf(ScanLit.invalid_IT \o FmtT(src) \o <<32>> \o src.val)]
        ELSE IndexTypeSwitch(recv, ToLower(c.s), c.s)

(***************************************************************************)
(* The texts of the package: the SQL it sends (the pieces the queries are  *)
(* concatenated from, byte for byte as in the source) and the pieces of    *)
(* its error messages.                                                     *)
(***************************************************************************)
(* "SELECT\n\t\t\tcid,\n\t\t\tname,\n\t\t\ttype,\n\t\t\t\"notnu ... *)
Q_Columns_pre ==
    <<83, 69, 76, 69, 67, 84, 10, 9, 9, 9, 99, 105, 100, 44, 10, 9, 9, 9,
      110, 97, 109, 101, 44, 10, 9, 9, 9, 116, 121, 112, 101, 44, 10, 9, 9,
      9, 34, 110, 111, 116, 110, 117, 108, 108, 34, 44, 10, 9, 9, 9, 100,
      102, 108, 116, 95, 118, 97, 108, 117, 101, 44, 10, 9, 9, 9, 112, 107,
      10, 9, 9, 70, 82, 79, 77, 10, 9, 9, 9, 112, 114, 97, 103, 109, 97, 95,
      116, 97, 98, 108, 101, 95, 105, 110, 102, 111, 40>>
(* ")\n\t\tORDER BY\n\t\t\tcid" *)
Q_Columns_post ==
    <<41, 10, 9, 9, 79, 82, 68, 69, 82, 32, 66, 89, 10, 9, 9, 9, 99, 105,
      100>>
(* "SELECT\n\t\t\tid,\n\t\t\t\"table\",\n\t\t\t\"from\",\n\t\t\ ... *)
Q_ForeignKeys_pre ==
    <<83, 69, 76, 69, 67, 84, 10, 9, 9, 9, 105, 100, 44, 10, 9, 9, 9, 34,
      116, 97, 98, 108, 101, 34, 44, 10, 9, 9, 9, 34, 102, 114, 111, 109, 34,
      44, 10, 9, 9, 9, 34, 116, 111, 34, 44, 10, 9, 9, 9, 111, 110, 95, 117,
      112, 100, 97, 116, 101, 44, 10, 9, 9, 9, 111, 110, 95, 100, 101, 108,
      101, 116, 101, 10, 9, 9, 70, 82, 79, 77, 10, 9, 9, 9, 112, 114, 97,
      103, 109, 97, 95, 102, 111, 114, 101, 105, 103, 110, 95, 107, 101, 121,
      95, 108, 105, 115, 116, 40>>
(* ")\n\t\tORDER BY\n\t\t\tid, seq" *)
Q_ForeignKeys_post ==
    <<41, 10, 9, 9, 79, 82, 68, 69, 82, 32, 66, 89, 10, 9, 9, 9, 105, 100,
      44, 32, 115, 101, 113>>
(* "SELECT\n\t\t\tt1.name,\n\t\t\tt1.origin,\n\t\t\tt1.\"unique ... *)
Q_Indexes_pre ==
    <<83, 69, 76, 69, 67, 84, 10, 9, 9, 9, 116, 49, 46, 110, 97, 109, 101,
      44, 10, 9, 9, 9, 116, 49, 46, 111, 114, 105, 103, 105, 110, 44, 10, 9,
      9, 9, 116, 49, 46, 34, 117, 110, 105, 113, 117, 101, 34, 44, 10, 9, 9,
      9, 116, 49, 46, 112, 97, 114, 116, 105, 97, 108, 44, 10, 9, 9, 9, 116,
      50, 46, 110, 97, 109, 101, 10, 9, 9, 70, 82, 79, 77, 10, 9, 9, 9, 112,
      114, 97, 103, 109, 97, 95, 105, 110, 100, 101, 120, 95, 108, 105, 115,
      116, 40, 63>>
(* ") t1\n\t\tINNER JOIN\n\t\t\tpragma_index_info(t1.name" *)
Q_Indexes_mid ==
    <<41, 32, 116, 49, 10, 9, 9, 73, 78, 78, 69, 82, 32, 74, 79, 73, 78, 10,
      9, 9, 9, 112, 114, 97, 103, 109, 97, 95, 105, 110, 100, 101, 120, 95,
      105, 110, 102, 111, 40, 116, 49, 46, 110, 97, 109, 101>>
(* ") t2\n\t\tORDER BY\n\t\t\tt1.seq, t2.seqno" *)
Q_Indexes_post ==
    <<41, 32, 116, 50, 10, 9, 9, 79, 82, 68, 69, 82, 32, 66, 89, 10, 9, 9, 9,
      116, 49, 46, 115, 101, 113, 44, 32, 116, 50, 46, 115, 101, 113, 110,
      111>>
(* "SELECT\n\t\t\tname,\n\t\t\tseqno,\n\t\t\tcid,\n\t\t\tdesc,\ ... *)
Q_indexColumns_pre ==
    <<83, 69, 76, 69, 67, 84, 10, 9, 9, 9, 110, 97, 109, 101, 44, 10, 9, 9,
      9, 115, 101, 113, 110, 111, 44, 10, 9, 9, 9, 99, 105, 100, 44, 10, 9,
      9, 9, 100, 101, 115, 99, 44, 10, 9, 9, 9, 99, 111, 108, 108, 44, 10, 9,
      9, 9, 107, 101, 121, 10, 9, 9, 70, 82, 79, 77, 10, 9, 9, 9, 112, 114,
      97, 103, 109, 97, 95, 105, 110, 100, 101, 120, 95, 120, 105, 110, 102,
      111, 40>>
(* ")\n\t\tWHERE\n\t\t\t" *)
Q_indexColumns_where == <<41, 10, 9, 9, 87, 72, 69, 82, 69, 10, 9, 9, 9>>
(* "\n\t\tORDER BY\n\t\t\tseqno" *)
Q_indexColumns_post ==
    <<10, 9, 9, 79, 82, 68, 69, 82, 32, 66, 89, 10, 9, 9, 9, 115, 101, 113,
      110, 111>>
(* "SELECT name FROM pragma_database_list ORDER BY name" *)
Q_SchemaNames ==
    <<83, 69, 76, 69, 67, 84, 32, 110, 97, 109, 101, 32, 70, 82, 79, 77, 32,
      112, 114, 97, 103, 109, 97, 95, 100, 97, 116, 97, 98, 97, 115, 101, 95,
      108, 105, 115, 116, 32, 79, 82, 68, 69, 82, 32, 66, 89, 32, 110, 97,
      109, 101>>
(* "SELECT COUNT( * ) FROM pragma_database_list WHERE LOWER(name) = ?" *)
Q_verify ==
    <<83, 69, 76, 69, 67, 84, 32, 67, 79, 85, 78, 84, 40, 42, 41, 32, 70, 82,
      79, 77, 32, 112, 114, 97, 103, 109, 97, 95, 100, 97, 116, 97, 98, 97,
      115, 101, 95, 108, 105, 115, 116, 32, 87, 72, 69, 82, 69, 32, 76, 79,
      87, 69, 82, 40, 110, 97, 109, 101, 41, 32, 61, 32, 63>>
(* "SELECT name FROM " *)
Q_master_pre ==
    <<83, 69, 76, 69, 67, 84, 32, 110, 97, 109, 101, 32, 70, 82, 79, 77, 32>>
(* " WHERE type = ? ORDER BY name" *)
Q_master_post ==
    <<32, 87, 72, 69, 82, 69, 32, 116, 121, 112, 101, 32, 61, 32, 63, 32, 79,
      82, 68, 69, 82, 32, 66, 89, 32, 110, 97, 109, 101>>
(* "sqlite_master" *)
L_sqlite_master ==
    <<115, 113, 108, 105, 116, 101, 95, 109, 97, 115, 116, 101, 114>>
(* "sqlite_temp_master" *)
L_sqlite_temp_master ==
    <<115, 113, 108, 105, 116, 101, 95, 116, 101, 109, 112, 95, 109, 97, 115,
      116, 101, 114>>
(* "temp" *)
L_temp == <<116, 101, 109, 112>>
(* "main" *)
L_main == <<109, 97, 105, 110>>
(* "table" *)
L_table == <<116, 97, 98, 108, 101>>
(* "view" *)
L_view == <<118, 105, 101, 119>>
(* "trigger" *)
L_trigger == <<116, 114, 105, 103, 103, 101, 114>>
(* "index" *)
L_index == <<105, 110, 100, 101, 120>>
(* "could not get " *)
L_could_not_get ==
    <<99, 111, 117, 108, 100, 32, 110, 111, 116, 32, 103, 101, 116, 32>>
(* " names: " *)
L_names == <<32, 110, 97, 109, 101, 115, 58, 32>>
(* "unknown database '" *)
L_unknown_database ==
    <<117, 110, 107, 110, 111, 119, 110, 32, 100, 97, 116, 97, 98, 97, 115,
      101, 32, 39>>
(* "schema names: " *)
L_schema_names ==
    <<115, 99, 104, 101, 109, 97, 32, 110, 97, 109, 101, 115, 58, 32>>
(* "columns for table " *)
L_columns_for_table ==
    <<99, 111, 108, 117, 109, 110, 115, 32, 102, 111, 114, 32, 116, 97, 98,
      108, 101, 32>>
(* "foreign keys for table " *)
L_foreign_keys_for_table ==
    <<102, 111, 114, 101, 105, 103, 110, 32, 107, 101, 121, 115, 32, 102,
      111, 114, 32, 116, 97, 98, 108, 101, 32>>
(* "indexes for table " *)
L_indexes_for_table ==
    <<105, 110, 100, 101, 120, 101, 115, 32, 102, 111, 114, 32, 116, 97, 98,
      108, 101, 32>>
(* "columns for index " *)
L_columns_for_index ==
    <<99, 111, 108, 117, 109, 110, 115, 32, 102, 111, 114, 32, 105, 110, 100,
      101, 120, 32>>
(* "key = 1" *)
L_key_1 == <<107, 101, 121, 32, 61, 32, 49>>
(* "1 = 1" *)
L_1_1 == <<49, 32, 61, 32, 49>>

(***************************************************************************)
(* The texts of the database side: the names the DDL statements of the     *)
(* model declare, and the engine's error messages.                         *)
(***************************************************************************)
(* The names the DDL statements of the model declare. *)
Name ==
    [ users |->  \* "users"
          <<117, 115, 101, 114, 115>>,
      idx_users |->  \* "idx_users"
          <<105, 100, 120, 95, 117, 115, 101, 114, 115>>,
      autoindex_users_1 |->  \* "sqlite_autoindex_users_1"
          <<115, 113, 108, 105, 116, 101, 95, 97, 117, 116, 111, 105,
            110, 100, 101, 120, 95, 117, 115, 101, 114, 115, 95, 49>>,
      autoindex_users_2 |->  \* "sqlite_autoindex_users_2"
          <<115, 113, 108, 105, 116, 101, 95, 97, 117, 116, 111, 105,
            110, 100, 101, 120, 95, 117, 115, 101, 114, 115, 95, 50>>,
      a |->  \* "a"
          <<97>>,
      view_a |->  \* "view_a"
          <<118, 105, 101, 119, 95, 97>>,
      trigger_a |->  \* "trigger_a"
          <<116, 114, 105, 103, 103, 101, 114, 95, 97>>,
      x |->  \* "x"
          <<120>>,
      y |->  \* "y"
          <<121>>,
      z |->  \* "z"
          <<122>>,
      id |->  \* "id"
          <<105, 100>>,
      email |->  \* "email"
          <<101, 109, 97, 105, 108>>,
      name |->  \* "name"
          <<110, 97, 109, 101>>,
      TEXT |->  \* "TEXT"
          <<84, 69, 88, 84>>,
      REAL |->  \* "REAL"
          <<82, 69, 65, 76>>,
      DATETIME |->  \* "DATETIME"
          <<68, 65, 84, 69, 84, 73, 77, 69>>,
      now |->  \* "'now'"
          <<39, 110, 111, 119, 39>>,
      parent1 |->  \* "parent1"
          <<112, 97, 114, 101, 110, 116, 49>>,
      parent2 |->  \* "parent2"
          <<112, 97, 114, 101, 110, 116, 50>>,
      px |->  \* "px"
          <<112, 120>>,
      BINARY |->  \* "BINARY"
          <<66, 73, 78, 65, 82, 89>>,
      NOCASE |->  \* "NOCASE"
          <<78, 79, 67, 65, 83, 69>>,
      aux |->  \* "aux"
          <<97, 117, 120>>,
      Db2 |->  \* "Db2"
          <<68, 98, 50>> ]
(* The engine's error messages. *)
EngineError ==
    [ unknown_database |->  \* "unknown database "
          <<117, 110, 107, 110, 111, 119, 110, 32, 100, 97, 116, 97, 98,
            97, 115, 101, 32>>,
      no_such_table |->  \* "no such table: "
          <<110, 111, 32, 115, 117, 99, 104, 32, 116, 97, 98, 108, 101,
            58, 32>>,
      syntax |->  \* "syntax error"
          <<115, 121, 110, 116, 97, 120, 32, 101, 114, 114, 111, 114>>,
      bind |->  \* "wrong number of bound parameters"
          <<119, 114, 111, 110, 103, 32, 110, 117, 109, 98, 101, 114, 32,
            111, 102, 32, 98, 111, 117, 110, 100, 32, 112, 97, 114, 97,
            109, 101, 116, 101, 114, 115>> ]
(* "DROP TABLE " *)
L_DROP_TABLE == <<68, 82, 79, 80, 32, 84, 65, 66, 76, 69, 32>>

(***************************************************************************)
(* SQL values.  A nullable text is a sql.NullString.                       *)
(***************************************************************************)
NullString(s) == [String |-> s, Valid |-> TRUE]
Null == [String |-> <<>>, Valid |-> FALSE]

(* SQLite's LOWER() and its identifier comparison (sqlite3StrICmp) fold    *)
(* the bytes 'A'..'Z' and leave every other byte alone.                    *)
SqlLower(b) ==
    [i \in DOMAIN b |-> IF b[i] >= 65 /\ b[i] <= 90 THEN b[i] + 32 ELSE b[i]]

StrICmp(a, b) == SqlLower(a) = SqlLower(b)

(* %Q of sqlite3_mprintf: the text in single quotes, each ' doubled.       *)
RECURSIVE SqlQuoteBody(_)
SqlQuoteBody(s) ==
    IF s = <<>> THEN <<>>
    ELSE (IF Head(s) = 39 THEN <<39, 39>> ELSE <<Head(s)>>)
           \o SqlQuoteBody(Tail(s))

SqlQuote(s) == <<39>> \o SqlQuoteBody(s) \o <<39>>

(* ORDER BY name under the BINARY collation, on a set of distinct names.   *)
RECURSIVE SortNames(_)
SortNames(S) ==
    IF S = {} THEN <<>>
    ELSE LET m == CHOOSE x \in S : \A y \in S \ {x} : BytesLess(x, y)
         IN  <<m>> \o SortNames(S \ {m})

Reverse(s) == [i \in DOMAIN s |-> s[Len(s) + 1 - i]]

(* The elements joined with a separator (strings.Join).                    *)
RECURSIVE Join(_, _)
Join(elems, sep) ==
    IF elems = <<>> THEN <<>>
    ELSE IF Len(elems) = 1 THEN elems[1]
    ELSE elems[1] \o sep \o Join(Tail(elems), sep)

(***************************************************************************)
(* The schema objects the DDL statements of the model declare.             *)
(*                                                                         *)
(*   users      CREATE TABLE users (id TEXT PRIMARY KEY,                   *)
(*                 email TEXT NOT NULL UNIQUE, name TEXT)                  *)
(*   idx_users  CREATE UNIQUE INDEX idx_users ON users                     *)
(*                 (name COLLATE NOCASE DESC, lower(email)) WHERE name>''  *)
(*   a          CREATE TABLE a (x TEXT, y REAL NOT NULL,                   *)
(*                 z DATETIME NOT NULL DEFAULT 'now',                      *)
(*                 FOREIGN KEY(x) REFERENCES parent1(px),                  *)
(*                 FOREIGN KEY(y, z) REFERENCES parent2                    *)
(*                    ON DELETE CASCADE ON UPDATE SET NULL)                *)
(*   view_a     CREATE VIEW view_a AS SELECT y, x FROM a                   *)
(*   trigger_a  CREATE TRIGGER trigger_a AFTER INSERT ON a ...             *)
(*                                                                         *)
(* A column is what pragma_table_info reports of it; an index is what      *)
(* pragma_index_list and pragma_index_xinfo report of it (cid -1 is the    *)
(* rowid, cid -2 an expression); the foreign keys are in declaration       *)
(* order.  inMaster tells whether the index has a row in sqlite_master.    *)
(***************************************************************************)
TableRankRowID == -1
TableRankExpr == -2

Col(name, type, notnull, dflt, pk) ==
    [name |-> name, type |-> type, notnull |-> notnull, dflt |-> dflt, pk |-> pk]

XCol(name, cid, desc, coll, key) ==
    [name |-> name, cid |-> cid, desc |-> desc, coll |-> coll, key |-> key]

Idx(name, origin, unique, partial, inMaster, xcols) ==
    [name |-> name, origin |-> origin, unique |-> unique, partial |-> partial,
     inMaster |-> inMaster, xcols |-> xcols]

Fk(table, from, to, on_update, on_delete) ==
    [table |-> table, from |-> from, to |-> to,
     on_update |-> on_update, on_delete |-> on_delete]

Obj(schema, def, type, name, tbl, cols, fks, indexes) ==
    [schema |-> schema, def |-> def, type |-> type, name |-> name, tbl |-> tbl,
     cols |-> cols, fks |-> fks, indexes |-> indexes]

DefNames == {"users", "idx_users", "a", "view_a", "trigger_a"}

Def(schema, id) ==
    CASE id = "users" ->
           Obj(schema, id, L_table, Name.users, Name.users,
               << Col(Name.id, Name.TEXT, 0, Null, 1),
                  Col(Name.email, Name.TEXT, 1, Null, 0),
                  Col(Name.name, Name.TEXT, 0, Null, 0) >>,
               <<>>,
               << Idx(Name.autoindex_users_1, ScanLit.pk, 1, 0, TRUE,
                      << XCol(NullString(Name.id), 0, 0, Name.BINARY, 1),
                         XCol(Null, TableRankRowID, 0, Name.BINARY, 0) >>),
                  Idx(Name.autoindex_users_2, ScanLit.u, 1, 0, TRUE,
                      << XCol(NullString(Name.email), 1, 0, Name.BINARY, 1),
                         XCol(Null, TableRankRowID, 0, Name.BINARY, 0) >>) >>)
      [] id = "idx_users" ->
           Obj(schema, id, L_index, Name.idx_users, Name.users, <<>>, <<>>,
               << Idx(Name.idx_users, ScanLit.c, 1, 1, TRUE,
                      << XCol(NullString(Name.name), 2, 1, Name.NOCASE, 1),
                         XCol(Null, TableRankExpr, 0, Name.BINARY, 1),
                         XCol(Null, TableRankRowID, 0, Name.BINARY, 0) >>) >>)
      [] id = "a" ->
           Obj(schema, id, L_table, Name.a, Name.a,
               << Col(Name.x, Name.TEXT, 0, Null, 0),
                  Col(Name.y, Name.REAL, 1, Null, 0),
                  Col(Name.z, Name.DATETIME, 1, NullString(Name.now), 0) >>,
               << Fk(Name.parent1, <<Name.x>>, <<NullString(Name.px)>>,
                     ScanLit.NO_ACTION, ScanLit.NO_ACTION),
                  Fk(Name.parent2, <<Name.y, Name.z>>, <<Null, Null>>,
                     ScanLit.SET_NULL, ScanLit.CASCADE) >>,
               <<>>)
      [] id = "view_a" ->
           Obj(schema, id, L_view, Name.view_a, Name.view_a,
               << Col(Name.y, Name.REAL, 0, Null, 0),
                  Col(Name.x, Name.TEXT, 0, Null, 0) >>,
               <<>>, <<>>)
      [] OTHER ->
           Obj(schema, id, L_trigger, Name.trigger_a, Name.a, <<>>, <<>>, <<>>)

(* The object a definition needs in its own schema before it is created:   *)
(* an index or a trigger needs its table, the view the table it selects    *)
(* from.                                                                   *)
Needs(id) ==
    CASE id = "idx_users" -> {"users"}
      [] id \in {"view_a", "trigger_a"} -> {"a"}
      [] OTHER -> {}

(***************************************************************************)
(* The database connection.  temp tells whether the temp database has been *)
(* opened (pragma_database_list lists it from then on), attached holds the *)
(* names of the ATTACHed databases in order of attachment, objs the schema *)
(* objects, each with the database it is in and what was declared of it.   *)
(***************************************************************************)
(* pragma_database_list: main, temp once it is open, the attached ones.    *)
DatabaseList(d) ==
    <<L_main>> \o (IF d.temp THEN <<L_temp>> ELSE <<>>) \o d.attached

(* The order in which an unqualified name is searched: temp, main, then    *)
(* the attached databases in order of attachment.                          *)
SearchOrder(d) == <<L_temp, L_main>> \o d.attached

(* The databases whose name is zName, compared as sqlite3FindDbName does.  *)
FindDbName(d, zName) ==
    SelectSeq(SearchOrder(d), LAMBDA n : StrICmp(n, zName))

ObjsIn(d, schema) == { o \in d.objs : o.schema = schema }

(* The rows (type, name) of one database's sqlite_master table.            *)
MasterRows(d, schema) ==
    UNION { {<<o.type, o.name>>}
              \cup (IF o.type = L_table
                    THEN { <<L_index, o.indexes[i].name>> :
                             i \in { j \in DOMAIN o.indexes : o.indexes[j].inMaster } }
                    ELSE {})
          : o \in ObjsIn(d, schema) }

(* The tables and views called zName, in the searched databases in order.  *)
FindTable(d, schemas, zName) ==
    LET hit(s) == { o \in ObjsIn(d, s) :
                      /\ o.type \in {L_table, L_view}
                      /\ StrICmp(o.name, zName) }
        found == SelectSeq(schemas, LAMBDA s : hit(s) # {})
    IN  IF found = <<>> THEN <<>>
        ELSE <<CHOOSE o \in hit(found[1]) : TRUE>>

(* The indexes of one table, as pragma_index_list orders them: the most    *)
(* recently created first, so the CREATE INDEX one before the automatic    *)
(* ones, and those in reverse order of declaration.                        *)
IndexList(d, tbl) ==
    LET explicit == { o \in ObjsIn(d, tbl.schema) :
                        /\ o.type = L_index
                        /\ StrICmp(o.tbl, tbl.name) }
        created == IF explicit = {} THEN <<>>
                   ELSE <<(CHOOSE o \in explicit : TRUE).indexes[1]>>
    IN  created \o Reverse(tbl.indexes)

(* The indexes called zName, in the searched databases in order.           *)
FindIndex(d, schemas, zName) ==
    LET all(s) == UNION { Range(o.indexes) : o \in ObjsIn(d, s) }
        hit(s) == { x \in all(s) : StrICmp(x.name, zName) }
        found == SelectSeq(schemas, LAMBDA s : hit(s) # {})
    IN  IF found = <<>> THEN <<>>
        ELSE <<CHOOSE x \in hit(found[1]) : TRUE>>

(***************************************************************************)
(* The pragma table-valued functions, as the rows of the SELECT lists the  *)
(* package asks for, in the order of the queries' ORDER BY clauses.        *)
(***************************************************************************)
(* cid, name, type, "notnull", dflt_value, pk  ORDER BY cid                *)
TableInfo(tbl) ==
    LET c == tbl.cols
    IN  [i \in DOMAIN c |->
           <<i - 1, c[i].name, c[i].type, c[i].notnull, c[i].dflt, c[i].pk>>]

(* id, "table", "from", "to", on_update, on_delete  ORDER BY id, seq.      *)
(* The engine numbers the foreign keys of a table from the last declared.  *)
ForeignKeyList(tbl) ==
    LET f == tbl.fks
        n == Len(f)
        rowsOf(id) ==
            LET k == f[n - id]
            IN  [j \in DOMAIN k.from |->
                   <<id, k.table, k.from[j], k.to[j], k.on_update, k.on_delete>>]
    IN  Concat([i \in 1..n |-> rowsOf(i - 1)])

KeyCols(x) == SelectSeq(x.xcols, LAMBDA c : c.key = 1)

(* t1.name, t1.origin, t1."unique", t1.partial, t2.name of                 *)
(* pragma_index_list(tbl) t1 JOIN pragma_index_info(t1.name) t2            *)
(* ORDER BY t1.seq, t2.seqno.  The second function looks the index up by   *)
(* its name, in the databases given to it.                                 *)
IndexListJoinInfo(d, tbl, schemas) ==
    LET l == IndexList(d, tbl)
        rowsOf(x) ==
            LET found == FindIndex(d, schemas, x.name)
                k == IF found = <<>> THEN <<>> ELSE KeyCols(found[1])
            IN  [j \in DOMAIN k |->
                   <<x.name, x.origin, x.unique, x.partial, k[j].name>>]
    IN  Concat([i \in DOMAIN l |-> rowsOf(l[i])])

(* name, seqno, cid, desc, coll, key  [WHERE key = 1]  ORDER BY seqno      *)
IndexXInfo(x, keyOnly) ==
    LET all == [i \in DOMAIN x.xcols |->
                  <<x.xcols[i].name, i - 1, x.xcols[i].cid, x.xcols[i].desc,
                    x.xcols[i].coll, x.xcols[i].key>>]
    IN  IF keyOnly THEN SelectSeq(all, LAMBDA r : r[6] = 1) ELSE all

(***************************************************************************)
(* The executor: what one Query or QueryRow call does with an SQL text and *)
(* its bound parameters.  The result is the connection afterwards, the     *)
(* error and the rows.                                                     *)
(***************************************************************************)
Result(d, err, rows) == [db |-> d, err |-> err, rows |-> rows]

CountOf(s, c) == Cardinality({ i \in DOMAIN s : s[i] = c })

IndexOf(s, c) ==
    IF \E i \in DOMAIN s : s[i] = c
    THEN CHOOSE i \in DOMAIN s : s[i] = c /\ \A j \in 1..(i - 1) : s[j] # c
    ELSE 0

RECURSIVE SplitOn(_, _)
SplitOn(s, c) ==
    LET i == IndexOf(s, c)
    IN  IF i = 0 THEN <<s>>
        ELSE <<SubSeq(s, 1, i - 1)>> \o SplitOn(SubSeq(s, i + 1, Len(s)), c)

RECURSIVE Trim(_)
Trim(s) ==
    IF s = <<>> THEN s
    ELSE IF Head(s) = 32 THEN Trim(Tail(s))
    ELSE IF s[Len(s)] = 32 THEN Trim(SubSeq(s, 1, Len(s) - 1))
    ELSE s

(* The text up to a "--" comment, which runs to the end of the line.       *)
StripComment(s) ==
    LET at == { i \in 1..(Len(s) - 1) : s[i] = 45 /\ s[i + 1] = 45 }
    IN  IF at = {} THEN s
        ELSE SubSeq(s, 1, (CHOOSE i \in at : \A j \in at : i <= j) - 1)

IsIdChar(b) ==
    \/ b >= 97 /\ b <= 122
    \/ b >= 65 /\ b <= 90
    \/ b >= 48 /\ b <= 57
    \/ b = 95
    \/ b >= 128

IsIdent(s) ==
    /\ s # <<>>
    /\ \A i \in DOMAIN s : IsIdChar(s[i])
    /\ ~(s[1] >= 48 /\ s[1] <= 57)

(* The databases a pragma function searches: the one named by its schema   *)
(* argument, args[k], when it has one, and all of them otherwise.  Naming  *)
(* the temp database opens it.                                             *)
Scoped(d, args, k) ==
    IF Len(args) < k
    THEN [err |-> NilError, schemas |-> SearchOrder(d), db |-> d]
    ELSE LET hit == FindDbName(d, args[k])
         IN  IF hit = <<>>
             THEN [err |-> Errorf(EngineError.unknown_database \o SqlQuote(args[k])),
                   schemas |-> <<>>, db |-> d]
             ELSE [err |-> NilError, schemas |-> <<hit[1]>>,
                   db |-> IF hit[1] = L_temp THEN [d EXCEPT !.temp = TRUE] ELSE d]

(* The '?' of a pragma function's argument list: "?" or "?, ?".            *)
ArgList(n) == IF n = 1 THEN <<63>> ELSE <<63, 44, 32, 63>>

(* The pragma functions, sc being the databases the function searches.    *)
ExecTableInfo(sc, zName) ==
    LET t == FindTable(sc.db, sc.schemas, zName)
    IN  Result(sc.db, sc.err, IF t = <<>> THEN <<>> ELSE TableInfo(t[1]))

ExecForeignKeyList(sc, zName) ==
    LET t == FindTable(sc.db, sc.schemas, zName)
    IN  Result(sc.db, sc.err, IF t = <<>> THEN <<>> ELSE ForeignKeyList(t[1]))

(* The join of two functions: sc1 is the scope of pragma_index_list, sc2   *)
(* that of pragma_index_info, which is not evaluated when the first fails. *)
ExecIndexList(sc1, sc2, zName) ==
    LET t == FindTable(sc1.db, sc1.schemas, zName)
    IN  IF ~sc1.err.nil THEN Result(sc1.db, sc1.err, <<>>)
        ELSE Result([sc1.db EXCEPT !.temp = @ \/ sc2.db.temp], sc2.err,
                    IF t = <<>> THEN <<>>
                    ELSE IndexListJoinInfo(sc1.db, t[1], sc2.schemas))

ExecIndexXInfo(sc, zName, keyOnly) ==
    LET x == FindIndex(sc.db, sc.schemas, zName)
    IN  Result(sc.db, sc.err, IF x = <<>> THEN <<>> ELSE IndexXInfo(x[1], keyOnly))

(* DROP TABLE: the table, first found in search order, goes with its       *)
(* indexes and triggers.                                                   *)
DropTable(d, zName) ==
    LET t == SelectSeq(FindTable(d, SearchOrder(d), zName),
                       LAMBDA o : o.type = L_table)
    IN  IF t = <<>> THEN d
        ELSE [d EXCEPT !.objs =
                { o \in d.objs :
                    ~(/\ o.schema = t[1].schema
                      /\ \/ o = t[1]
                         \/ /\ o.type \in {L_index, L_trigger}
                            /\ StrICmp(o.tbl, zName)) }]

(* SELECT name FROM <table> [WHERE type = ? ORDER BY name], where <table>  *)
(* is sqlite_master, sqlite_temp_master or <database>.sqlite_master: parts *)
(* is <table> split at the dots, hasWhere tells whether the WHERE clause   *)
(* is there.                                                               *)
ExecSelectName(d, parts, hasWhere, args) ==
    LET tname == parts[Len(parts)]
        dbs == IF Len(parts) = 2 THEN FindDbName(d, parts[1])
               ELSE IF StrICmp(tname, L_sqlite_temp_master) THEN <<L_temp>>
               ELSE <<L_main>>
        isMaster == \/ StrICmp(tname, L_sqlite_master)
                    \/ /\ StrICmp(tname, L_sqlite_temp_master)
                       /\ dbs = <<L_temp>>
        names == { r[2] : r \in { m \in MasterRows(d, dbs[1]) :
                                    ~hasWhere \/ m[1] = args[1] } }
    IN  IF ~(Len(parts) \in {1, 2} /\ \A i \in DOMAIN parts : IsIdent(parts[i]))
        THEN Result(d, Errorf(EngineError.syntax), <<>>)
        ELSE IF dbs = <<>> \/ ~isMaster
        THEN Result(d, Errorf(EngineError.no_such_table \o Join(parts, <<46>>)),
                    <<>>)
        ELSE IF hasWhere /\ Len(args) # 1
        THEN Result(d, Errorf(EngineError.bind), <<>>)
        ELSE Result(IF dbs[1] = L_temp THEN [d EXCEPT !.temp = TRUE] ELSE d,
                    NilError,
                    LET s == SortNames(names) IN [i \in DOMAIN s |-> <<s[i]>>])

(* The statements after the first of a text with several statements, r    *)
(* being the result so far: the driver runs them one after the other and   *)
(* stops at the first error.                                               *)
RECURSIVE ExecRest(_, _)
ExecRest(r, stmts) ==
    IF ~r.err.nil \/ stmts = <<>> THEN r
    ELSE LET s == Trim(Head(stmts))
             zName == SubSeq(s, Len(L_DROP_TABLE) + 1, Len(s))
         IN  IF StartsWith(s, L_DROP_TABLE) /\ IsIdent(zName)
             THEN ExecRest(Result(DropTable(r.db, zName), NilError, <<>>),
                           Tail(stmts))
             ELSE Result(r.db, Errorf(EngineError.syntax), <<>>)

(* A text that begins as the query of masterTableNames does, stmts being   *)
(* its statements.                                                         *)
ExecScript(d, stmts, args) ==
    LET first == Trim(stmts[1])
        hasWhere == EndsWith(first, Q_master_post)
        ref == SubSeq(first, Len(Q_master_pre) + 1,
                      Len(first) - (IF hasWhere THEN Len(Q_master_post) ELSE 0))
    IN  ExecRest(ExecSelectName(d, SplitOn(ref, 46), hasWhere, args),
                 Tail(stmts))

Exec(d, q, args) ==
    CASE q = Q_SchemaNames ->
           LET s == SortNames(Range(DatabaseList(d)))
           IN  Result(d, NilError, [i \in DOMAIN s |-> <<s[i]>>])
      [] q = Q_verify ->
           IF Len(args) # 1 THEN Result(d, Errorf(EngineError.bind), <<>>)
           ELSE LET l == DatabaseList(d)
                IN  Result(d, NilError,
                      << <<Cardinality({ i \in DOMAIN l : SqlLower(l[i]) = args[1] })>> >>)
      [] StartsWith(q, Q_master_pre) ->
           ExecScript(d, SelectSeq(SplitOn(StripComment(q), 59),
                                   LAMBDA s : Trim(s) # <<>>), args)
      [] \E n \in {1, 2} : q = Q_Columns_pre \o ArgList(n) \o Q_Columns_post ->
           IF CountOf(q, 63) # Len(args) THEN Result(d, Errorf(EngineError.bind), <<>>)
           ELSE ExecTableInfo(Scoped(d, args, 2), args[1])
      [] \E n \in {1, 2} : q = Q_ForeignKeys_pre \o ArgList(n) \o Q_ForeignKeys_post ->
           IF CountOf(q, 63) # Len(args) THEN Result(d, Errorf(EngineError.bind), <<>>)
           ELSE ExecForeignKeyList(Scoped(d, args, 2), args[1])
      [] \/ q = Q_Indexes_pre \o Q_Indexes_mid \o Q_Indexes_post
         \/ q = Q_Indexes_pre \o <<44, 32, 63>> \o Q_Indexes_mid
                  \o <<44, 32, 63>> \o Q_Indexes_post ->
           IF CountOf(q, 63) # Len(args) THEN Result(d, Errorf(EngineError.bind), <<>>)
           ELSE ExecIndexList(Scoped(d, args, 2), Scoped(d, args, 3), args[1])
      [] \E n \in {1, 2} : \E w \in {L_key_1, L_1_1} :
           q = Q_indexColumns_pre \o ArgList(n) \o Q_indexColumns_where
                 \o w \o Q_indexColumns_post ->
           IF CountOf(q, 63) # Len(args) THEN Result(d, Errorf(EngineError.bind), <<>>)
           ELSE ExecIndexXInfo(Scoped(d, args, 2), args[1],
                               EndsWith(q, L_key_1 \o Q_indexColumns_post))
      [] OTHER -> Result(d, Errorf(EngineError.syntax), <<>>)

(***************************************************************************)
(* The package.  A Schema is its name; noSchema has the empty name.  Every *)
(* operation is a function of the connection and its arguments and yields  *)
(* the connection afterwards, the statements sent to the executor in order *)
(* (text and bound parameters), and the two results of the Go function.    *)
(***************************************************************************)
noSchema == <<>>
Main == L_main
Temp == L_temp

Stmt(q, args) == [q |-> q, args |-> args]

Return(d, sent, list, err) == [db |-> d, sent |-> sent, list |-> list, err |-> err]

(* strings.Repeat and strings.Split(s, "").                                *)
RECURSIVE Repeat(_, _)
Repeat(s, n) == IF n = 0 THEN <<>> ELSE s \o Repeat(s, n - 1)

RECURSIVE Explode(_)
Explode(s) ==
    IF s = <<>> THEN <<>>
    ELSE LET w == RuneWidth(s)
         IN  <<SubSeq(s, 1, w)>> \o Explode(SubSeq(s, w + 1, Len(s)))

(* placeholdersFor giving one placeholder whatever the number of values.   *)
placeholdersFor_single(vals) == <<63>>

placeholdersFor(vals) == Join(Explode(Repeat(<<63>>, Len(vals))), <<44, 32>>)

(* queryStrings: run the query and scan the single column of every row     *)
(* into a string.  A query that failed has no rows.                        *)
queryStrings(d, q, args) ==
    [Exec(d, q, args) EXCEPT !.rows = [i \in DOMAIN @ |-> @[i][1]]]

(* The driver hands a TEXT column to a Scanner as a string.                *)
DriverText(s) == [kind |-> "string", val |-> s]

(* A nullable text scanned into a []byte: nil for NULL.                     *)
BytesOf(x) == [nil |-> ~x.Valid, b |-> IF x.Valid THEN x.String ELSE <<>>]

(* The fields of Column in another order than the SELECT list: Name and    *)
(* Type exchanged.                                                         *)
ScanColumn_swapped(r) ==
    [err |-> NilError,
     val |-> [ID |-> r[1], Name |-> r[3], Type |-> r[2], NotNull |-> r[4] = 1,
              Default |-> BytesOf(r[5]), PrimaryKey |-> r[6]]]

ScanColumn(r) ==
    [err |-> NilError,
     val |-> [ID |-> r[1], Name |-> r[2], Type |-> r[3], NotNull |-> r[4] = 1,
              Default |-> BytesOf(r[5]), PrimaryKey |-> r[6]]]

ScanForeignKeyRow(r) ==
    LET u == ForeignKeyActionScan(ForeignKeyActionNone, DriverText(r[5]))
        dl == ForeignKeyActionScan(ForeignKeyActionNone, DriverText(r[6]))
    IN  [err |-> IF ~u.err.nil THEN u.err ELSE dl.err,
         val |-> [ID |-> r[1], Table |-> r[2], From |-> r[3], To |-> r[4],
                  OnUpdate |-> u.val, OnDelete |-> dl.val]]

(* The row of Indexes with the column name scanned into a string, so that  *)
(* NULL becomes the empty name.                                            *)
ScanIndexRow_emptyName(r) ==
    LET t == IndexTypeScan(IndexTypeNormal, DriverText(r[2]))
    IN  [err |-> t.err,
         val |-> [Name |-> r[1], Type |-> t.val, Unique |-> r[3] = 1,
                  Partial |-> r[4] = 1, ColumnName |-> NullString(r[5].String)]]

ScanIndexRow(r) ==
    LET t == IndexTypeScan(IndexTypeNormal, DriverText(r[2]))
    IN  [err |-> t.err,
         val |-> [Name |-> r[1], Type |-> t.val, Unique |-> r[3] = 1,
                  Partial |-> r[4] = 1, ColumnName |-> r[5]]]

ScanIndexColumn(r) ==
    [err |-> NilError,
     val |-> [Name |-> r[1], Rank |-> r[2], TableRank |-> r[3],
              Descending |-> r[4] = 1, Collation |-> r[5], IsKey |-> r[6] = 1]]

(* queryRows: run the query and scan every row, column by column in the    *)
(* order of the SELECT list, into the fields of a new element of the       *)
(* destination slice, dest naming its element type.  The error is that of  *)
(* the executor or of the first field that failed to scan.                 *)
ScanRow(dest, r) ==
    CASE dest = "Column" -> ScanColumn(r)
      [] dest = "ForeignKeyRow" -> ScanForeignKeyRow(r)
      [] dest = "IndexRow" -> ScanIndexRow(r)
      [] OTHER -> ScanIndexColumn(r)

(* The loop over the rows of the executor's result r, xs being what the    *)
(* scans made so far gave: it ends after the first row that fails to scan, *)
(* with the error of that scan and the elements before it.                 *)
RECURSIVE ScanRows(_, _, _)
ScanRows(dest, r, xs) ==
    LET failed == xs # <<>> /\ ~xs[Len(xs)].err.nil
        n == IF failed THEN Len(xs) - 1 ELSE Len(xs)
    IN  IF r.rows # <<>> /\ ~failed
        THEN ScanRows(dest, [r EXCEPT !.rows = Tail(@)],
                      Append(xs, ScanRow(dest, Head(r.rows))))
        ELSE [r EXCEPT !.err = IF failed THEN xs[Len(xs)].err ELSE @,
                       !.rows = [i \in 1..n |-> xs[i].val]]

queryRows(dest, d, q, args) == ScanRows(dest, Exec(d, q, args), <<>>)

(* paramsFor without the schema's name: the query is never scoped.         *)
paramsFor_unscoped(s, objName) == <<objName>>

(* The parameters of an object-scoped query: the object's name, then the   *)
(* schema's name when the Schema has one.                                  *)
paramsFor(s, objName) == <<objName>> \o (IF s # <<>> THEN <<s>> ELSE <<>>)

(* Finish handing back, with the error, the rows scanned before it.        *)
Finish_partial(r, sent, what) ==
    IF ~r.err.nil
    THEN Return(r.db, sent, r.rows, Errorf(L_could_not_get \o what \o r.err.msg))
    ELSE Return(r.db, sent, r.rows, NilError)

(* The two ways an operation ends once its query r has run, sent being the *)
(* statements it sent: the error of the query inside a message that names  *)
(* what was asked for, or the values.                                      *)
Finish(r, sent, what) ==
    IF ~r.err.nil
    THEN Return(r.db, sent, <<>>, Errorf(L_could_not_get \o what \o r.err.msg))
    ELSE Return(r.db, sent, r.rows, NilError)

(* SchemaNames answering with what a connection has when it is opened.     *)
SchemaNames_cached(d) ==
    Return(d, <<Stmt(Q_SchemaNames, <<>>)>>, <<L_main>>, NilError)

SchemaNames(d) ==
    Finish(queryStrings(d, Q_SchemaNames, <<>>), <<Stmt(Q_SchemaNames, <<>>)>>,
           L_schema_names)

(* Schema.Columns reporting a table without rows as an error.              *)
Schema_Columns_missing(d, s, tableName) ==
    LET params == paramsFor(s, tableName)
        q == Q_Columns_pre \o placeholdersFor(params) \o Q_Columns_post
        r == queryRows("Column", d, q, params)
    IN  Finish(IF r.err.nil /\ r.rows = <<>>
               THEN [r EXCEPT !.err = Errorf(EngineError.no_such_table
                                               \o tableName)]
               ELSE r,
               <<Stmt(q, params)>>,
               L_columns_for_table \o tableName \o <<58, 32>>)

Schema_Columns(d, s, tableName) ==
    LET params == paramsFor(s, tableName)
        q == Q_Columns_pre \o placeholdersFor(params) \o Q_Columns_post
    IN  Finish(queryRows("Column", d, q, params), <<Stmt(q, params)>>,
               L_columns_for_table \o tableName \o <<58, 32>>)

(* The loop of ForeignKeys naming the child table as the engine has it,    *)
(* in lower case, and not as the caller wrote it.                          *)
RECURSIVE FoldForeignKeys_engineName(_, _, _, _)
FoldForeignKeys_engineName(rows, foreignKeys, fk, tableName) ==
    IF rows = <<>> THEN foreignKeys
    ELSE LET r == Head(rows)
             new == fk = 0 \/ r.ID # foreignKeys[fk].ID
             appended ==
                 IF new
                 THEN Append(foreignKeys,
                             [ID |-> r.ID, ChildTable |-> SqlLower(tableName),
                              ChildKey |-> <<>>, ParentTable |-> r.Table,
                              ParentKey |-> <<>>, OnUpdate |-> r.OnUpdate,
                              OnDelete |-> r.OnDelete])
                 ELSE foreignKeys
             fk1 == IF new THEN Len(appended) ELSE fk
         IN  FoldForeignKeys_engineName(Tail(rows),
                 [appended EXCEPT ![fk1].ChildKey = Append(@, r.From),
                                  ![fk1].ParentKey = Append(@, r.To)],
                 fk1, tableName)

(* The loop of ForeignKeys leaving out the parent columns that are NULL.    *)
RECURSIVE FoldForeignKeys_skipNull(_, _, _, _)
FoldForeignKeys_skipNull(rows, foreignKeys, fk, tableName) ==
    IF rows = <<>> THEN foreignKeys
    ELSE LET r == Head(rows)
             new == fk = 0 \/ r.ID # foreignKeys[fk].ID
             appended ==
                 IF new
                 THEN Append(foreignKeys,
                             [ID |-> r.ID, ChildTable |-> tableName,
                              ChildKey |-> <<>>, ParentTable |-> r.Table,
                              ParentKey |-> <<>>, OnUpdate |-> r.OnUpdate,
                              OnDelete |-> r.OnDelete])
                 ELSE foreignKeys
             fk1 == IF new THEN Len(appended) ELSE fk
         IN  FoldForeignKeys_skipNull(Tail(rows),
                 [appended EXCEPT
                    ![fk1].ChildKey = Append(@, r.From),
                    ![fk1].ParentKey = IF r.To.Valid THEN Append(@, r.To) ELSE @],
                 fk1, tableName)

(* The loop of ForeignKeys over the rows.  fk, the pointer into the slice, *)
(* is the index of the element it points to, 0 when nil.                   *)
(* The loop of ForeignKeys writing the columns of the row that begins a    *)
(* record through the pointer it had before the append, where they are     *)
(* lost.                                                                   *)
RECURSIVE FoldForeignKeys_stalePointer(_, _, _, _)
FoldForeignKeys_stalePointer(rows, foreignKeys, fk, tableName) ==
    IF rows = <<>> THEN foreignKeys
    ELSE LET r == Head(rows)
             new == fk = 0 \/ r.ID # foreignKeys[fk].ID
             appended ==
                 IF new
                 THEN Append(foreignKeys,
                             [ID |-> r.ID, ChildTable |-> tableName,
                              ChildKey |-> <<>>, ParentTable |-> r.Table,
                              ParentKey |-> <<>>, OnUpdate |-> r.OnUpdate,
                              OnDelete |-> r.OnDelete])
                 ELSE [foreignKeys EXCEPT ![fk].ChildKey = Append(@, r.From),
                                          ![fk].ParentKey = Append(@, r.To)]
             fk1 == IF new THEN Len(appended) ELSE fk
         IN  FoldForeignKeys_stalePointer(Tail(rows), appended, fk1, tableName)

(* The loop of ForeignKeys taking the parent table and the actions from    *)
(* every row, so that a record ends with those of the last row of its run. *)
RECURSIVE FoldForeignKeys_lastRow(_, _, _, _)
FoldForeignKeys_lastRow(rows, foreignKeys, fk, tableName) ==
    IF rows = <<>> THEN foreignKeys
    ELSE LET r == Head(rows)
             new == fk = 0 \/ r.ID # foreignKeys[fk].ID
             appended ==
                 IF new
                 THEN Append(foreignKeys,
                             [ID |-> r.ID, ChildTable |-> tableName,
                              ChildKey |-> <<>>, ParentTable |-> r.Table,
                              ParentKey |-> <<>>, OnUpdate |-> r.OnUpdate,
                              OnDelete |-> r.OnDelete])
                 ELSE foreignKeys
             fk1 == IF new THEN Len(appended) ELSE fk
         IN  FoldForeignKeys_lastRow(Tail(rows),
                 [appended EXCEPT ![fk1].ChildKey = Append(@, r.From),
                                  ![fk1].ParentKey = Append(@, r.To),
                                  ![fk1].ParentTable = r.Table,
                                  ![fk1].OnUpdate = r.OnUpdate,
                                  ![fk1].OnDelete = r.OnDelete],
                 fk1, tableName)

RECURSIVE FoldForeignKeys(_, _, _, _)
FoldForeignKeys(rows, foreignKeys, fk, tableName) ==
    IF rows = <<>> THEN foreignKeys
    ELSE LET r == Head(rows)
             new == fk = 0 \/ r.ID # foreignKeys[fk].ID
             appended ==
                 IF new
                 THEN Append(foreignKeys,
                             [ID |-> r.ID, ChildTable |-> tableName,
                              ChildKey |-> <<>>, ParentTable |-> r.Table,
                              ParentKey |-> <<>>, OnUpdate |-> r.OnUpdate,
                              OnDelete |-> r.OnDelete])
                 ELSE foreignKeys
             fk1 == IF new THEN Len(appended) ELSE fk
         IN  FoldForeignKeys(Tail(rows),
                 [appended EXCEPT ![fk1].ChildKey = Append(@, r.From),
                                  ![fk1].ParentKey = Append(@, r.To)],
                 fk1, tableName)

Schema_ForeignKeys(d, s, tableName) ==
    LET params == paramsFor(s, tableName)
        q == Q_ForeignKeys_pre \o placeholdersFor(params) \o Q_ForeignKeys_post
    IN  [Finish(queryRows("ForeignKeyRow", d, q, params), <<Stmt(q, params)>>,
                L_foreign_keys_for_table \o tableName \o <<58, 32>>)
           EXCEPT !.list = FoldForeignKeys(@, <<>>, 0, tableName)]

(* The loop of Indexes beginning a record where the type changes, not the  *)
(* name.                                                                   *)
RECURSIVE FoldIndexes_byType(_, _, _)
FoldIndexes_byType(rows, indexes, idx) ==
    IF rows = <<>> THEN indexes
    ELSE LET r == Head(rows)
             new == idx = 0 \/ r.Type # indexes[idx].Type
             appended ==
                 IF new
                 THEN Append(indexes,
                             [Name |-> r.Name, Type |-> r.Type,
                              IsUnique |-> r.Unique, IsPartial |-> r.Partial,
                              ColumnNames |-> <<>>])
                 ELSE indexes
             idx1 == IF new THEN Len(appended) ELSE idx
         IN  FoldIndexes_byType(Tail(rows),
                 [appended EXCEPT ![idx1].ColumnNames = Append(@, r.ColumnName)],
                 idx1)

(* The loop of Indexes over the rows, idx being the pointer.               *)
RECURSIVE FoldIndexes(_, _, _)
FoldIndexes(rows, indexes, idx) ==
    IF rows = <<>> THEN indexes
    ELSE LET r == Head(rows)
             new == idx = 0 \/ r.Name # indexes[idx].Name
             appended ==
                 IF new
                 THEN Append(indexes,
                             [Name |-> r.Name, Type |-> r.Type,
                              IsUnique |-> r.Unique, IsPartial |-> r.Partial,
                              ColumnNames |-> <<>>])
                 ELSE indexes
             idx1 == IF new THEN Len(appended) ELSE idx
         IN  FoldIndexes(Tail(rows),
                 [appended EXCEPT ![idx1].ColumnNames = Append(@, r.ColumnName)],
                 idx1)

Schema_Indexes(d, s, tableName) ==
    LET placeholder == IF s # <<>> THEN <<44, 32, 63>> ELSE <<>>
        params == <<tableName>> \o (IF s # <<>> THEN <<s, s>> ELSE <<>>)
        q == Q_Indexes_pre \o placeholder \o Q_Indexes_mid \o placeholder
               \o Q_Indexes_post
    IN  [Finish(queryRows("IndexRow", d, q, params), <<Stmt(q, params)>>,
                L_indexes_for_table \o tableName \o <<58, 32>>)
           EXCEPT !.list = FoldIndexes(@, <<>>, 0)]

Schema_indexColumns(d, s, indexName, includeAux) ==
    LET params == paramsFor(s, indexName)
        whereClause == IF includeAux THEN L_1_1 ELSE L_key_1
        q == Q_indexColumns_pre \o placeholdersFor(params)
               \o Q_indexColumns_where \o whereClause \o Q_indexColumns_post
    IN  Finish(queryRows("IndexColumn", d, q, params), <<Stmt(q, params)>>,
               L_columns_for_index \o indexName \o <<58, 32>>)

(* IndexColumns without the filter on the key columns.                     *)
Schema_IndexColumns_all(d, s, indexName) == Schema_indexColumns(d, s, indexName, TRUE)

Schema_IndexColumns(d, s, indexName) == Schema_indexColumns(d, s, indexName, FALSE)
Schema_IndexColumnsAux(d, s, indexName) == Schema_indexColumns(d, s, indexName, TRUE)

(* What verify makes of the executor's result r for its count query: the  *)
(* error of the query, or the error that names the Schema when the count   *)
(* is below one.                                                           *)
verifyCount(r, sent, name) ==
    [db |-> r.db, sent |-> sent,
     err |-> IF ~r.err.nil THEN r.err
             ELSE IF r.rows[1][1] < 1
             THEN Errorf(L_unknown_database \o name \o <<39>>)
             ELSE NilError]

(* Schema.verify reporting the name as it was folded for the comparison.   *)
Schema_verify_folded(d, s) ==
    LET args == <<sqlower(s)>>
    IN  verifyCount(Exec(d, Q_verify, args), <<Stmt(Q_verify, args)>>,
                    sqlower(s))

(* Schema.verify: the error, with the connection and the statement sent.   *)
Schema_verify(d, s) ==
    LET args == <<sqlower(s)>>
    IN  verifyCount(Exec(d, Q_verify, args), <<Stmt(Q_verify, args)>>, s)

(* selectNames going on to the query whatever verify returned.             *)
selectNames_anyway(v, q, typ) ==
    Finish(queryStrings(v.db, q, <<typ>>), v.sent \o <<Stmt(q, <<typ>>)>>,
           typ \o L_names)

(* masterTableNames once the Schema's name has been verified, v being what *)
(* verify returned: its error ends the operation, and otherwise the names  *)
(* are selected with the query q.                                          *)
selectNames(v, q, typ) ==
    IF ~v.err.nil
    THEN Return(v.db, v.sent, <<>>,
                Errorf(L_could_not_get \o typ \o L_names \o v.err.msg))
    ELSE Finish(queryStrings(v.db, q, <<typ>>), v.sent \o <<Stmt(q, <<typ>>)>>,
                typ \o L_names)

(* masterTableNames taking only the name "temp" as written, in lower case, *)
(* for the temp database.                                                  *)
Schema_masterTableNames_exactTemp(d, s, typ) ==
    LET isTemp == s = L_temp
        checked == s # <<>> /\ ~isTemp
        tableName == IF s = <<>> THEN L_sqlite_master
                     ELSE IF isTemp THEN L_sqlite_temp_master
                     ELSE s \o <<46>> \o L_sqlite_master
    IN  selectNames(IF checked THEN Schema_verify(d, s)
                    ELSE [db |-> d, sent |-> <<>>, err |-> NilError],
                    Q_master_pre \o tableName \o Q_master_post, typ)

(* masterTableNames splicing the name as verify folded it, not as the      *)
(* caller gave it.                                                         *)
Schema_masterTableNames_spliceFolded(d, s, typ) ==
    LET isTemp == s # <<>> /\ ToLower(s) = L_temp
        checked == s # <<>> /\ ~isTemp
        tableName == IF s = <<>> THEN L_sqlite_master
                     ELSE IF isTemp THEN L_sqlite_temp_master
                     ELSE sqlower(s) \o <<46>> \o L_sqlite_master
    IN  selectNames(IF checked THEN Schema_verify(d, s)
                    ELSE [db |-> d, sent |-> <<>>, err |-> NilError],
                    Q_master_pre \o tableName \o Q_master_post, typ)

Schema_masterTableNames(d, s, typ) ==
    LET isTemp == s # <<>> /\ ToLower(s) = L_temp
        checked == s # <<>> /\ ~isTemp
        tableName == IF s = <<>> THEN L_sqlite_master
                     ELSE IF isTemp THEN L_sqlite_temp_master
                     ELSE s \o <<46>> \o L_sqlite_master
    IN  selectNames(IF checked THEN Schema_verify(d, s)
                    ELSE [db |-> d, sent |-> <<>>, err |-> NilError],
                    Q_master_pre \o tableName \o Q_master_post, typ)

(* ViewNames asking for the tables.                                         *)
Schema_ViewNames_asTables(d, s) == Schema_masterTableNames(d, s, L_table)

Schema_TableNames(d, s)   == Schema_masterTableNames(d, s, L_table)
Schema_ViewNames(d, s)    == Schema_masterTableNames(d, s, L_view)
Schema_TriggerNames(d, s) == Schema_masterTableNames(d, s, L_trigger)
Schema_IndexNames(d, s)   == Schema_masterTableNames(d, s, L_index)

(* TableNames listing the database an unqualified table name is looked up  *)
(* in first.                                                               *)
TableNames_temp(d) == Schema_masterTableNames(d, Temp, L_table)

(* The package-level functions: the methods of noSchema.                   *)
TableNames(d)   == Schema_TableNames(d, noSchema)
ViewNames(d)    == Schema_ViewNames(d, noSchema)
TriggerNames(d) == Schema_TriggerNames(d, noSchema)
IndexNames(d)   == Schema_IndexNames(d, noSchema)
Columns(d, tableName)         == Schema_Columns(d, noSchema, tableName)
ForeignKeys(d, tableName)     == Schema_ForeignKeys(d, noSchema, tableName)
Indexes(d, tableName)         == Schema_Indexes(d, noSchema, tableName)
IndexColumns(d, indexName)    == Schema_IndexColumns(d, noSchema, indexName)
IndexColumnsAux(d, indexName) == Schema_IndexColumnsAux(d, noSchema, indexName)

(***************************************************************************)
(* Bounds of the model, and the inputs of the calls.                       *)
(***************************************************************************)
MaxObjects == 2
MaxAttached == 1

(* The names ATTACH gives, the first MaxAttached of them.                  *)
AttachNames == <<Name.aux, Name.Db2>>

(* The names the calls are made with. *)
Input ==
    [ MAIN |->  \* "MAIN"
          <<77, 65, 73, 78>>,
      TEMP |->  \* "TEMP"
          <<84, 69, 77, 80>>,
      AUX |->  \* "AUX"
          <<65, 85, 88>>,
      M_ff |->  \* "M\xff": the byte 0xFF is not UTF-8
          <<77, 255>>,
      test |->  \* "test"
          <<116, 101, 115, 116>>,
      inject_master |->  \* "sqlite_master; DROP TABLE users; --"
          <<115, 113, 108, 105, 116, 101, 95, 109, 97, 115, 116, 101,
            114, 59, 32, 68, 82, 79, 80, 32, 84, 65, 66, 76, 69, 32, 117,
            115, 101, 114, 115, 59, 32, 45, 45>>,
      inject_paren |->  \* "); DROP TABLE users; --"
          <<41, 59, 32, 68, 82, 79, 80, 32, 84, 65, 66, 76, 69, 32, 117,
            115, 101, 114, 115, 59, 32, 45, 45>>,
      A |->  \* "A"
          <<65>>,
      xxxxxx |->  \* "xxxxxx"
          <<120, 120, 120, 120, 120, 120>>,
      USERS |->  \* "USERS"
          <<85, 83, 69, 82, 83>> ]

(* The receivers of the method calls: DB(name) for these names.  Main and  *)
(* Temp are DB("main") and DB("temp").                                     *)
SchemaArgs ==
    {Main, Temp, Input.MAIN, Input.TEMP, Name.aux, Input.AUX, Input.test,
     Input.M_ff, Input.inject_master, Input.inject_paren}

(* A call is a package-level function (top) or a method of DB(schema).     *)
Callers ==
    {[top |-> TRUE, schema |-> noSchema]}
      \cup { [top |-> FALSE, schema |-> s] : s \in SchemaArgs }

TableArgs ==
    {<<>>, Name.users, Input.USERS, Name.a, Input.A, Name.view_a, Input.xxxxxx,
     Input.inject_paren}

IndexArgs ==
    {<<>>, Name.idx_users, Name.autoindex_users_1, Input.xxxxxx, Input.inject_paren}

(* The values handed to Scan: strings and []byte of these texts, and two   *)
(* values of other types, with the text %v prints of them.                 *)
ScanTexts ==
    { <<>>,
      ScanLit.c, ScanLit.u, ScanLit.pk,
      <<67>>,                                           \* "C"
      <<85>>,                                           \* "U"
      <<80, 75>>,                                       \* "PK"
      <<80, 107>>,                                      \* "Pk"
      <<112, 226, 132, 170>>,                           \* "p" U+212A
      <<112, 107, 32>>,                                 \* "pk "
      <<99, 117>>,                                      \* "cu"
      <<117, 110, 107, 110, 111, 119, 110>>,            \* "unknown"
      ScanLit.NO_ACTION, ScanLit.RESTRICT, ScanLit.SET_NULL, ScanLit.SET_DEFAULT, ScanLit.CASCADE,
      <<78, 111, 32, 65, 99, 116, 105, 111, 110>>,      \* "No Action"
      <<82, 101, 115, 116, 114, 105, 99, 116>>,         \* "Restrict"
      <<83, 101, 116, 32, 78, 85, 76, 76>>,             \* "Set NULL"
      <<83, 101, 116, 32, 68, 101, 102, 97, 117, 108, 116>>,  \* "Set Default"
      <<67, 97, 115, 99, 97, 100, 101>>,                \* "Cascade"
      <<99, 97, 115, 99, 97, 100, 101>>,                \* "cascade"
      <<67, 65, 197, 191, 67, 65, 68, 69>>,             \* "CA" U+017F "CADE"
      <<82, 69, 83, 84, 82, 196, 177, 67, 84>>,         \* "RESTR" U+0131 "CT"
      <<82, 69, 83, 84, 82, 196, 176, 67, 84>>,         \* "RESTR" U+0130 "CT"
      <<78, 79, 65, 67, 84, 73, 79, 78>>,               \* "NOACTION"
      <<83, 69, 84, 32, 32, 78, 85, 76, 76>>,           \* "SET  NULL"
      <<112, 34, 107>>,                                 \* "p", '"', "k"
      <<85, 110, 107, 110, 111, 119, 110>> }            \* "Unknown"

ScanSrcs ==
    [kind : {"string", "[]byte"}, val : ScanTexts]
      \cup { [kind |-> "int", val |-> <<52, 50>>],                 \* 42
             [kind |-> "nil", val |-> <<60, 110, 105, 108, 62>>] } \* <nil>

(***************************************************************************)
(* The state: the database connection; the call the client has made and    *)
(* not yet consumed, with its results; the two Scan receivers and the last *)
(* Scan made; the calls several clients have in progress at once on the    *)
(* one handle.                                                             *)
(***************************************************************************)
VARIABLES db, ret, v, t, scan, calls

vars == <<db, ret, v, t, scan, calls>>

NoCall ==
    [op |-> "none", top |-> TRUE, schema |-> <<>>, arg |-> <<>>,
     sent |-> <<>>, list |-> <<>>, err |-> NilError]

(* The clients that call at the same time, and a client with no call in    *)
(* progress.                                                               *)
MaxClients == 2

Clients == 1..MaxClients

Idle == [pc |-> "idle"]

NoScan == [recv |-> "none", src |-> [kind |-> "nil", val |-> <<>>],
           old |-> 0, err |-> NilError]

Init ==
    /\ db = [temp |-> FALSE, attached |-> <<>>, objs |-> {}]
    /\ ret = NoCall
    /\ v = ForeignKeyActionNone
    /\ t = IndexTypeNormal
    /\ scan = NoScan
    /\ calls = [c \in Clients |-> Idle]

(* A call returns: the connection is what the executor left, the client    *)
(* holds the results.                                                      *)
Returns(op, c, arg, r) ==
    /\ ret.op = "none"
    /\ db' = r.db
    /\ ret' = [op |-> op, top |-> c.top, schema |-> c.schema, arg |-> arg,
               sent |-> r.sent, list |-> r.list, err |-> r.err]
    /\ UNCHANGED <<v, t, scan, calls>>

CallSchemaNames == Returns("SchemaNames", [top |-> TRUE, schema |-> noSchema],
                           <<>>, SchemaNames(db))

CallTableNames ==
    \E c \in Callers :
        Returns("TableNames", c, <<>>,
                IF c.top THEN TableNames(db) ELSE Schema_TableNames(db, c.schema))

CallViewNames ==
    \E c \in Callers :
        Returns("ViewNames", c, <<>>,
                IF c.top THEN ViewNames(db) ELSE Schema_ViewNames(db, c.schema))

CallTriggerNames ==
    \E c \in Callers :
        Returns("TriggerNames", c, <<>>,
                IF c.top THEN TriggerNames(db)
                ELSE Schema_TriggerNames(db, c.schema))

CallIndexNames ==
    \E c \in Callers :
        Returns("IndexNames", c, <<>>,
                IF c.top THEN IndexNames(db) ELSE Schema_IndexNames(db, c.schema))

CallColumns ==
    \E c \in Callers, n \in TableArgs :
        Returns("Columns", c, n,
                IF c.top THEN Columns(db, n) ELSE Schema_Columns(db, c.schema, n))

CallForeignKeys ==
    \E c \in Callers, n \in TableArgs :
        Returns("ForeignKeys", c, n,
                IF c.top THEN ForeignKeys(db, n)
                ELSE Schema_ForeignKeys(db, c.schema, n))

CallIndexes ==
    \E c \in Callers, n \in TableArgs :
        Returns("Indexes", c, n,
                IF c.top THEN Indexes(db, n) ELSE Schema_Indexes(db, c.schema, n))

CallIndexColumns ==
    \E c \in Callers, n \in IndexArgs :
        Returns("IndexColumns", c, n,
                IF c.top THEN IndexColumns(db, n)
                ELSE Schema_IndexColumns(db, c.schema, n))

CallIndexColumnsAux ==
    \E c \in Callers, n \in IndexArgs :
        Returns("IndexColumnsAux", c, n,
                IF c.top THEN IndexColumnsAux(db, n)
                ELSE Schema_IndexColumnsAux(db, c.schema, n))

(* The client is done with the results of its call.                        *)
Consume ==
    /\ ret.op # "none"
    /\ ret' = NoCall
    /\ UNCHANGED <<db, v, t, scan, calls>>

(***************************************************************************)
(* The schema changes made on the connection between the calls.            *)
(***************************************************************************)
OpenSchemas(d) == {L_main, L_temp} \cup Range(d.attached)

ExecCreate ==
    \E schema \in OpenSchemas(db), id \in DefNames :
        /\ ret.op = "none"
        /\ Cardinality(db.objs) < MaxObjects
        /\ id \notin { o.def : o \in ObjsIn(db, schema) }
        /\ Needs(id) \subseteq { o.def : o \in ObjsIn(db, schema) }
        /\ db' = [db EXCEPT !.objs = @ \cup {Def(schema, id)},
                            !.temp = @ \/ schema = L_temp]
        /\ UNCHANGED <<ret, v, t, scan, calls>>

ExecDrop ==
    \E o \in db.objs :
        /\ ret.op = "none"
        /\ \A p \in ObjsIn(db, o.schema) : o.def \notin Needs(p.def)
        /\ db' = [db EXCEPT !.objs = @ \ {o}]
        /\ UNCHANGED <<ret, v, t, scan, calls>>

ExecAttach ==
    \E i \in 1..MaxAttached :
        /\ ret.op = "none"
        /\ i <= Len(AttachNames)
        /\ Len(db.attached) < MaxAttached
        /\ FindDbName(db, AttachNames[i]) = <<>>
        /\ db' = [db EXCEPT !.attached = Append(@, AttachNames[i])]
        /\ UNCHANGED <<ret, v, t, scan, calls>>

ExecDetach ==
    \E i \in DOMAIN db.attached :
        /\ ret.op = "none"
        /\ db' = [db EXCEPT
                    !.attached = SelectSeq(@, LAMBDA n : n # db.attached[i]),
                    !.objs = { o \in @ : o.schema # db.attached[i] }]
        /\ UNCHANGED <<ret, v, t, scan, calls>>

Next ==
    \/ CallSchemaNames
    \/ CallTableNames
    \/ CallViewNames
    \/ CallTriggerNames
    \/ CallIndexNames
    \/ CallColumns
    \/ CallForeignKeys
    \/ CallIndexes
    \/ CallIndexColumns
    \/ CallIndexColumnsAux
    \/ Consume
    \/ ExecCreate
    \/ ExecDrop
    \/ ExecAttach
    \/ ExecDetach

Spec == Init /\ [][Next]_vars

(***************************************************************************)
(* The same connection when a database may also be attached under a quoted *)
(* name that is not an identifier: ATTACH ... AS "sqlite_master; DROP      *)
(* TABLE users; --" gives the database exactly that name.                  *)
(***************************************************************************)
ExecAttachQuoted ==
    /\ ret.op = "none"
    /\ Len(db.attached) < MaxAttached
    /\ FindDbName(db, Input.inject_master) = <<>>
    /\ db' = [db EXCEPT !.attached = Append(@, Input.inject_master)]
    /\ UNCHANGED <<ret, v, t, scan, calls>>

NextQuoted == Next \/ ExecAttachQuoted

SpecQuoted == Init /\ [][NextQuoted]_vars

(***************************************************************************)
(* The decoding of the two enumerations, on its own: Scan is called on the *)
(* receivers v and t with every input.                                     *)
(***************************************************************************)
ScanForeignKeyAction ==
    \E src \in ScanSrcs :
        LET r == ForeignKeyActionScan(v, src)
        IN  /\ v' = r.val
            /\ scan' = [recv |-> "ForeignKeyAction", src |-> src, old |-> v,
                        err |-> r.err]
            /\ UNCHANGED <<db, ret, t, calls>>

ScanIndexType ==
    \E src \in ScanSrcs :
        LET r == IndexTypeScan(t, src)
        IN  /\ t' = r.val
            /\ scan' = [recv |-> "IndexType", src |-> src, old |-> t,
                        err |-> r.err]
            /\ UNCHANGED <<db, ret, v, calls>>

NextScan == ScanForeignKeyAction \/ ScanIndexType

SpecScan == Init /\ [][NextScan]_vars

(***************************************************************************)
(* The operations that decode an enumeration, on an executor that answers  *)
(* a query with any rows or with an error: the handle is a *sql.DB, the    *)
(* package does not know the driver behind it.                             *)
(***************************************************************************)
MaxRows == 3

(* The sequences of at most n elements of S.                               *)
SeqsUpTo(S, n) == UNION { [1..k -> S] : k \in 0..n }

(* What the executor answers: an error of its own, or rows of the          *)
(* destination's columns, in any order and with rows of one id or one      *)
(* index name that differ in their other columns.  BOGUS and x are texts   *)
(* neither Scan recognises.                                                *)
Answers(dest) ==
    LET fk == { <<id, b[1], b[2], b[3], b[4], b[5]>> :
                   id \in {0, 1},
                   b \in { <<Name.parent1, Name.x, NullString(Name.px),
                             ScanLit.CASCADE, ScanLit.NO_ACTION>>,
                           <<Name.parent2, Name.y, Null,
                             ScanLit.SET_NULL, ScanLit.CASCADE>> } }
                \cup { <<0, Name.parent1, Name.x, Null,
                         <<66, 79, 71, 85, 83>>, ScanLit.NO_ACTION>>,
                       <<1, Name.parent1, Name.x, Null,
                         ScanLit.CASCADE, <<66, 79, 71, 85, 83>>>> }
        ix == { <<n, b[1], b[2], b[3], b[4]>> :
                   n \in {Name.idx_users, Name.autoindex_users_1},
                   b \in { <<ScanLit.c, 0, 1, NullString(Name.name)>>,
                           <<ScanLit.pk, 1, 0, Null>> } }
                \cup { <<Name.autoindex_users_2, ScanLit.u, 1, 0,
                         NullString(Name.email)>>,
                       <<Name.idx_users, <<120>>, 1, 0, NullString(Name.name)>>,
                       <<Name.autoindex_users_1, <<120>>, 1, 0, Null>> }
    IN  { [err |-> Errorf(<<115, 113, 108, 58, 32, 100, 97, 116, 97, 98, 97, 115, 101, 32, 105, 115, 32, 99, 108, 111, 115, 101, 100>>), rows |-> <<>>] }
          \cup { [err |-> NilError, rows |-> rows] :
                    rows \in SeqsUpTo(IF dest = "ForeignKeyRow" THEN fk ELSE ix,
                                      MaxRows) }

(* The call returns r to the client, a being what the executor answered.   *)
Answered(op, arg, a, r) ==
    /\ ret.op = "none"
    /\ ret' = [op |-> op, top |-> TRUE, schema |-> noSchema, arg |-> arg,
               sent |-> r.sent, list |-> r.list, err |-> r.err, answer |-> a]
    /\ UNCHANGED <<db, v, t, scan, calls>>

RowsForeignKeys ==
    \E tableName \in {Name.a, Name.users}, a \in Answers("ForeignKeyRow") :
        LET params == paramsFor(noSchema, tableName)
            q == Q_ForeignKeys_pre \o placeholdersFor(params)
                   \o Q_ForeignKeys_post
        IN  Answered("ForeignKeys", tableName, a,
                [Finish(ScanRows("ForeignKeyRow",
                                 [db |-> db, err |-> a.err, rows |-> a.rows],
                                 <<>>),
                        <<Stmt(q, params)>>,
                        L_foreign_keys_for_table \o tableName \o <<58, 32>>)
                   EXCEPT !.list = FoldForeignKeys(@, <<>>, 0, tableName)])

RowsIndexes ==
    \E tableName \in {Name.a, Name.users}, a \in Answers("IndexRow") :
        LET q == Q_Indexes_pre \o Q_Indexes_mid \o Q_Indexes_post
        IN  Answered("Indexes", tableName, a,
                [Finish(ScanRows("IndexRow",
                                 [db |-> db, err |-> a.err, rows |-> a.rows],
                                 <<>>),
                        <<Stmt(q, <<tableName>>)>>,
                        L_indexes_for_table \o tableName \o <<58, 32>>)
                   EXCEPT !.list = FoldIndexes(@, <<>>, 0)])

NextRows == RowsForeignKeys \/ RowsIndexes \/ Consume

SpecRows == Init /\ [][NextRows]_vars



(***************************************************************************)
(* Several clients calling at once on one handle.  The executor runs one   *)
(* query at a time; a call is in progress from its first query to its      *)
(* return, and a name listing on a Schema that has to be verified is two   *)
(* queries, between which the other clients' queries may run.  The schema  *)
(* is not modified meanwhile: the connection starts with a table in main,  *)
(* a database attached as aux and a table in it.                           *)
(***************************************************************************)
InitClients ==
    /\ db = [temp |-> FALSE, attached |-> <<Name.aux>>,
             objs |-> {Def(L_main, "users"), Def(Name.aux, "a")}]
    /\ ret = NoCall
    /\ v = ForeignKeyActionNone
    /\ t = IndexTypeNormal
    /\ scan = NoScan
    /\ calls = [c \in Clients |-> Idle]

(* The calls the clients make.                                             *)
ClientCalls ==
    { [op |-> "SchemaNames", top |-> TRUE, schema |-> noSchema, arg |-> <<>>],
      [op |-> "TableNames", top |-> TRUE, schema |-> noSchema, arg |-> <<>>],
      [op |-> "TableNames", top |-> FALSE, schema |-> Temp, arg |-> <<>>],
      [op |-> "TableNames", top |-> FALSE, schema |-> Name.aux, arg |-> <<>>],
      [op |-> "ViewNames", top |-> FALSE, schema |-> Main, arg |-> <<>>],
      [op |-> "ViewNames", top |-> FALSE, schema |-> Input.test, arg |-> <<>>],
      [op |-> "IndexNames", top |-> FALSE, schema |-> Input.inject_master,
       arg |-> <<>>],
      [op |-> "Columns", top |-> TRUE, schema |-> noSchema, arg |-> Name.users],
      [op |-> "ForeignKeys", top |-> FALSE, schema |-> Name.aux, arg |-> Name.a],
      [op |-> "Indexes", top |-> FALSE, schema |-> Temp, arg |-> Name.users] }

(* The operation op as the caller (top, s) calls it with arg on d.         *)
CallOf(op, top, s, arg, d) ==
    CASE op = "SchemaNames" -> SchemaNames(d)
      [] op = "TableNames" ->
           IF top THEN TableNames(d) ELSE Schema_TableNames(d, s)
      [] op = "ViewNames" ->
           IF top THEN ViewNames(d) ELSE Schema_ViewNames(d, s)
      [] op = "TriggerNames" ->
           IF top THEN TriggerNames(d) ELSE Schema_TriggerNames(d, s)
      [] op = "IndexNames" ->
           IF top THEN IndexNames(d) ELSE Schema_IndexNames(d, s)
      [] op = "Columns" ->
           IF top THEN Columns(d, arg) ELSE Schema_Columns(d, s, arg)
      [] op = "ForeignKeys" ->
           IF top THEN ForeignKeys(d, arg) ELSE Schema_ForeignKeys(d, s, arg)
      [] op = "Indexes" ->
           IF top THEN Indexes(d, arg) ELSE Schema_Indexes(d, s, arg)
      [] op = "IndexColumns" ->
           IF top THEN IndexColumns(d, arg) ELSE Schema_IndexColumns(d, s, arg)
      [] OTHER ->
           IF top THEN IndexColumnsAux(d, arg)
           ELSE Schema_IndexColumnsAux(d, s, arg)


(* The type a name listing asks the catalog for, which is also the word    *)
(* for it in the text of its errors.                                       *)
KindOf(op) ==
    CASE op = "TableNames" -> L_table
      [] op = "ViewNames" -> L_view
      [] op = "TriggerNames" -> L_trigger
      [] OTHER -> L_index

(* Whether the call begins with the query of verify.                       *)
Verifies(k) ==
    /\ k.op \in {"TableNames", "ViewNames", "TriggerNames", "IndexNames"}
    /\ k.schema # <<>>
    /\ ToLower(k.schema) # L_temp

(* Resume taking the Schema's name from where the first client's call in   *)
(* progress left it, as if the name were kept in one place for all calls.  *)
Resume_shared(k, d) ==
    selectNames([db |-> d, sent |-> k.sent, err |-> NilError],
                Q_master_pre
                  \o (IF calls[1].pc # "idle" THEN calls[1].schema ELSE k.schema)
                  \o <<46>> \o L_sqlite_master \o Q_master_post,
                KindOf(k.op))

(* The second query of a name listing whose Schema verify has passed, run  *)
(* on the connection d as it is by then.                                   *)
Resume(k, d) ==
    selectNames([db |-> d, sent |-> k.sent, err |-> NilError],
                Q_master_pre \o k.schema \o <<46>> \o L_sqlite_master
                  \o Q_master_post,
                KindOf(k.op))

(* A client calls: the call has sent nothing yet.                          *)
ClientCall(c) ==
    \E k \in ClientCalls :
        /\ calls[c].pc = "idle"
        /\ calls' = [calls EXCEPT ![c] =
                       [pc |-> IF Verifies(k) THEN "verify" ELSE "query",
                        op |-> k.op, top |-> k.top, schema |-> k.schema,
                        arg |-> k.arg, sent |-> <<>>]]
        /\ UNCHANGED <<db, ret, v, t, scan>>

(* The call has returned r.                                                *)
Returned(c, r) ==
    /\ db' = r.db
    /\ calls' = [calls EXCEPT ![c] =
                   [pc |-> "done", op |-> @.op, top |-> @.top,
                    schema |-> @.schema, arg |-> @.arg, sent |-> r.sent,
                    list |-> r.list, err |-> r.err]]
    /\ UNCHANGED <<ret, v, t, scan>>

(* The query of verify runs.  When verify fails the call returns its       *)
(* error; otherwise the second query is still to come.                     *)
Verified(c, r) ==
    IF ~r.err.nil
    THEN Returned(c, selectNames(r, <<>>, KindOf(calls[c].op)))
    ELSE /\ db' = r.db
         /\ calls' = [calls EXCEPT ![c].pc = "query", ![c].sent = r.sent]
         /\ UNCHANGED <<ret, v, t, scan>>

ClientVerify(c) ==
    /\ calls[c].pc = "verify"
    /\ Verified(c, Schema_verify(db, calls[c].schema))

(* The one query of the call, or its second, runs and the call returns.    *)
ClientQuery(c) ==
    /\ calls[c].pc = "query"
    /\ Returned(c, IF Verifies(calls[c]) THEN Resume(calls[c], db)
                   ELSE CallOf(calls[c].op, calls[c].top, calls[c].schema,
                               calls[c].arg, db))

(* The client is done with the results.                                    *)
ClientConsume(c) ==
    /\ calls[c].pc = "done"
    /\ calls' = [calls EXCEPT ![c] = Idle]
    /\ UNCHANGED <<db, ret, v, t, scan>>

NextClients ==
    \E c \in Clients :
        \/ ClientCall(c)
        \/ ClientVerify(c)
        \/ ClientQuery(c)
        \/ ClientConsume(c)

SpecClients == InitClients /\ [][NextClients]_vars


(***************************************************************************)
(* The properties of the package, stated over the call the client holds    *)
(* the results of.  After a call only Consume is enabled, so db is the     *)
(* connection as the call left it.                                         *)
(***************************************************************************)
NameOps == {"TableNames", "ViewNames", "TriggerNames", "IndexNames"}

TableOps == {"Columns", "ForeignKeys", "Indexes"}

IndexOps == {"IndexColumns", "IndexColumnsAux"}

ObjectOps == TableOps \cup IndexOps

(* "<property> for <table|index> " in the text of an object-scoped error.  *)
PropertyOf(op) ==
    CASE op = "Columns" -> L_columns_for_table
      [] op = "ForeignKeys" -> L_foreign_keys_for_table
      [] op = "Indexes" -> L_indexes_for_table
      [] OTHER -> L_columns_for_index

(* Two names that differ in the case of the letters A-Z only.              *)
FoldByte(b) == IF b \in 65..90 THEN b + 32 ELSE b

SameNameNoCase(a, b) ==
    /\ Len(a) = Len(b)
    /\ \A i \in DOMAIN a : FoldByte(a[i]) = FoldByte(b[i])

Failure(msg) == [nil |-> FALSE, msg |-> msg]

(* The tables and views, and the indexes, a name denotes in some databases.*)
TablesNamed(d, scope, n) ==
    { o \in d.objs : /\ o.schema \in scope
                     /\ o.type \in {L_table, L_view}
                     /\ SameNameNoCase(o.name, n) }

IndexesNamed(d, scope, n) ==
    { <<o, i>> \in d.objs \X (1..3) :
        /\ o.schema \in scope
        /\ i \in DOMAIN o.indexes
        /\ SameNameNoCase(o.indexes[i].name, n) }

(* The databases a call looks in: all of them when unscoped.               *)
ScopeOf(d, r) ==
    IF r.top THEN Range(SearchOrder(d))
    ELSE { n \in Range(SearchOrder(d)) : SameNameNoCase(n, r.schema) }

(* C1: a name-listing method called on a Schema whose non-empty name is    *)
(* not "temp" in any letter case and is the name of no attached database   *)
(* returns no list and the error                                           *)
(* "could not get <kind> names: unknown database '<name>'", with the name  *)
(* exactly as it was given.                                                *)
C1_UnknownSchemaNames ==
    (/\ ret.op \in NameOps
     /\ ~ret.top
     /\ ret.schema # <<>>
     /\ ~SameNameNoCase(ret.schema, L_temp)
     /\ \A i \in DOMAIN DatabaseList(db) :
            ~SameNameNoCase(DatabaseList(db)[i], ret.schema))
    => /\ ret.list = <<>>
       /\ ret.err = Failure(L_could_not_get \o KindOf(ret.op) \o L_names
                              \o L_unknown_database \o ret.schema \o <<39>>)

(* IndexNames on DB("sqlite_master; DROP TABLE users; --") has failed and  *)
(* the table users of main is still there.                                 *)
C1_Witness ==
    /\ ret.op = "IndexNames"
    /\ ~ret.top
    /\ ret.schema = Input.inject_master
    /\ ret.list = <<>>
    /\ ~ret.err.nil
    /\ EndsWith(ret.err.msg, Input.inject_master \o <<39>>)
    /\ Def(L_main, "users") \in db.objs

(* C2: an object-scoped method called with a schema name that is the name  *)
(* of no database returns no list and the error                            *)
(* "could not get <property> for <table|index> <objectName>: " followed by *)
(* the executor's unknown-database message, which holds the schema name as *)
(* given; one statement was sent, a single SELECT with the schema name     *)
(* among its parameters and not in its text, and the connection's objects  *)
(* are what they were before the call.                                     *)
C2_UnknownSchemaObjectOps ==
    [][ (/\ ret.op = "none"
         /\ ret'.op \in ObjectOps
         /\ ~ret'.top
         /\ ret'.schema # <<>>
         /\ \A n \in Range(SearchOrder(db)) : ~SameNameNoCase(n, ret'.schema))
        => LET prefix == L_could_not_get \o PropertyOf(ret'.op) \o ret'.arg
                           \o <<58, 32>>
               m == SubSeq(ret'.err.msg, Len(prefix) + 1, Len(ret'.err.msg))
               q == ret'.sent[1].q
           IN  /\ ret'.list = <<>>
               /\ ~ret'.err.nil
               /\ StartsWith(ret'.err.msg, prefix)
               /\ StartsWith(m, EngineError.unknown_database)
               /\ Contains(m, ret'.schema)
               /\ Len(ret'.sent) = 1
               /\ StartsWith(q, SubSeq(Q_verify, 1, 6))
               /\ CountOf(q, 59) = 0
               /\ ~Contains(q, ret'.schema)
               /\ ret'.schema \in Range(ret'.sent[1].args)
               /\ db' = db ]_vars

(* Indexes on DB("); DROP TABLE users; --") has failed with the name in    *)
(* the message and the table users of main is still there.                 *)
C2_Witness ==
    /\ ret.op = "Indexes"
    /\ ~ret.top
    /\ ret.schema = Input.inject_paren
    /\ ret.arg = Name.users
    /\ ~ret.err.nil
    /\ Contains(ret.err.msg, Input.inject_paren)
    /\ Def(L_main, "users") \in db.objs

(* C3: an object-scoped operation called unscoped, on Main or on Temp with *)
(* the name of no table or view (of no index, for the two index            *)
(* operations) returns a list of length zero and a nil error.              *)
C3_UnknownObjectIsEmpty ==
    (/\ ret.op \in ObjectOps
     /\ ret.top \/ ret.schema \in {Main, Temp}
     /\ ret.op \in TableOps => TablesNamed(db, ScopeOf(db, ret), ret.arg) = {}
     /\ ret.op \in IndexOps => IndexesNamed(db, ScopeOf(db, ret), ret.arg) = {})
    => /\ Len(ret.list) = 0
       /\ ret.err.nil

(* Columns, unscoped, of "); DROP TABLE users; --" has returned nothing    *)
(* and no error, and the table users of main is still there.               *)
C3_Witness ==
    /\ ret.op = "Columns"
    /\ ret.top
    /\ ret.arg = Input.inject_paren
    /\ ret.list = <<>>
    /\ ret.err.nil
    /\ Def(L_main, "users") \in db.objs


(* The names of the objects of one kind in one database: those of the      *)
(* CREATE statements of that kind and, for the indexes, those the engine   *)
(* makes for the PRIMARY KEY and UNIQUE constraints of the tables.         *)
NamesOfKind(d, schema, kind) ==
    LET here == { o \in d.objs : o.schema = schema }
    IN  { o.name : o \in { p \in here : p.type = kind } }
          \cup (IF kind = L_index
                THEN UNION { { x.name : x \in Range(o.indexes) } :
                             o \in { p \in here : p.type = L_table } }
                ELSE {})

(* A list in ascending order of its bytes, without duplicates.             *)
Ascending(list) ==
    \A i \in 1..(Len(list) - 1) : BytesLess(list[i], list[i + 1])

(* The databases a Schema value selects for a name listing: main when      *)
(* unscoped, temp, or the attached database of that name.                  *)
Selected(d, r) ==
    IF r.top THEN {L_main}
    ELSE { n \in {L_main, L_temp} \cup Range(d.attached) :
             SameNameNoCase(n, r.schema) }

(* C4: a name listing of the kind K, unscoped, on temp or on a schema      *)
(* whose name is the name of a database, returns a nil error and the names *)
(* in ascending order without duplicates, and the names are exactly those  *)
(* of the objects of kind K in that database (none, when it has none).     *)
C4_NameListingExact ==
    (ret.op \in NameOps /\ Selected(db, ret) # {})
    => /\ ret.err.nil
       /\ Ascending(ret.list)
       /\ \E n \in Selected(db, ret) :
              Range(ret.list) = NamesOfKind(db, n, KindOf(ret.op))

(* TableNames on Temp has returned the one table of temp, while main holds *)
(* another table.                                                          *)
C4_Witness ==
    /\ ret.op = "TableNames"
    /\ ~ret.top
    /\ ret.schema = Temp
    /\ ret.list = <<Name.users>>
    /\ Def(L_temp, "users") \in db.objs
    /\ Def(L_main, "a") \in db.objs

(* The method of Main for a name-listing operation.                        *)
OnMain(op, d) ==
    CASE op = "TableNames" -> Schema_TableNames(d, Main)
      [] op = "ViewNames" -> Schema_ViewNames(d, Main)
      [] op = "TriggerNames" -> Schema_TriggerNames(d, Main)
      [] OTHER -> Schema_IndexNames(d, Main)

(* C5: a package-level name listing returns what the method of Main        *)
(* returns on the same connection, and that is the names of the main       *)
(* database only, whatever temp and the attached databases hold.           *)
C5_UnscopedIsMain ==
    (ret.op \in NameOps /\ ret.top)
    => /\ ret.list = OnMain(ret.op, db).list
       /\ ret.err = OnMain(ret.op, db).err
       /\ Range(ret.list) = NamesOfKind(db, L_main, KindOf(ret.op))

(* TableNames, unscoped, has returned the table of main while temp holds   *)
(* another table.                                                          *)
C5_Witness ==
    /\ ret.op = "TableNames"
    /\ ret.top
    /\ ret.list = <<Name.a>>
    /\ Def(L_main, "a") \in db.objs
    /\ Def(L_temp, "users") \in db.objs

(* C6: whatever came before, SchemaNames returns a nil error and, in       *)
(* ascending order, exactly the databases the connection has when it is    *)
(* called: main, temp once the temp database is open, and the attached     *)
(* ones; the call changes none of this.                                    *)
C6_SchemaNamesLive ==
    [][ (ret.op = "none" /\ ret'.op = "SchemaNames")
        => /\ ret'.err.nil
           /\ Ascending(ret'.list)
           /\ Range(ret'.list) = {L_main}
                                   \cup (IF db.temp THEN {L_temp} ELSE {})
                                   \cup Range(db.attached)
           /\ db' = db ]_vars

(* SchemaNames has returned aux, main, temp.                               *)
C6_Witness ==
    /\ ret.op = "SchemaNames"
    /\ ret.list = <<Name.aux, L_main, L_temp>>
    /\ \E o \in db.objs : o.schema = L_temp /\ o.type = L_table

(* The table or view an object-scoped call names: the first in the order   *)
(* of search when unscoped, the one of the named database otherwise.       *)
TableOf(d, r) ==
    FindTable(d, IF r.top THEN SearchOrder(d) ELSE FindDbName(d, r.schema),
              r.arg)

(* C7: Columns of a table or view with N columns returns a nil error and N *)
(* entries with the IDs 0, 1, ..., N-1 in this order, the entry of ID i    *)
(* having the name, the declared type, the not-null flag, the default text *)
(* and the primary-key rank of the column at that ordinal.                 *)
C7_ColumnsByOrdinal ==
    (ret.op = "Columns" /\ TableOf(db, ret) # <<>>)
    => LET cols == TableOf(db, ret)[1].cols
       IN  /\ ret.err.nil
           /\ Len(ret.list) = Len(cols)
           /\ \A i \in DOMAIN ret.list :
                  /\ ret.list[i].ID = i - 1
                  /\ ret.list[i].Name = cols[i].name
                  /\ ret.list[i].Type = cols[i].type
                  /\ ret.list[i].NotNull = (cols[i].notnull = 1)
                  /\ ret.list[i].Default.nil = ~cols[i].dflt.Valid
                  /\ cols[i].dflt.Valid =>
                         ret.list[i].Default.b = cols[i].dflt.String
                  /\ ret.list[i].PrimaryKey = cols[i].pk

(* Columns of the table a has returned its three columns, the third with   *)
(* its default.                                                            *)
C7_Witness ==
    /\ ret.op = "Columns"
    /\ ret.arg = Name.a
    /\ Len(ret.list) = 3
    /\ ret.list[3].ID = 2
    /\ ret.list[3].Name = Name.z
    /\ ret.list[3].Default = [nil |-> FALSE, b |-> Name.now]
    /\ ret.list[1].Default.nil
    /\ ret.list[2].NotNull

(* C8: every ForeignKey that ForeignKeys returns has as many child columns *)
(* as parent columns, as many as the constraint names, and ChildKey[i] and *)
(* ParentKey[i] are the child and the parent column of the i-th pair of    *)
(* the constraint (the engine numbers the constraints of a table from the  *)
(* last declared).                                                         *)
C8_ForeignKeyPairs ==
    (ret.op = "ForeignKeys" /\ TableOf(db, ret) # <<>>)
    => LET fks == TableOf(db, ret)[1].fks
           n == Len(fks)
       IN  /\ ret.err.nil
           /\ Len(ret.list) = n
           /\ \A k \in DOMAIN ret.list :
                  LET fk == ret.list[k]
                  IN  /\ fk.ID \in 0..(n - 1)
                      /\ Len(fk.ChildKey) = Len(fk.ParentKey)
                      /\ Len(fk.ChildKey) = Len(fks[n - fk.ID].from)
                      /\ \A i \in DOMAIN fk.ChildKey :
                             /\ fk.ChildKey[i] = fks[n - fk.ID].from[i]
                             /\ fk.ParentKey[i] = fks[n - fk.ID].to[i]

(* ForeignKeys of the table a has returned the constraint of two columns,  *)
(* whose parent columns are not named, and the constraint of one.          *)
C8_Witness ==
    /\ ret.op = "ForeignKeys"
    /\ ret.arg = Name.a
    /\ Len(ret.list) = 2
    /\ ret.list[1].ChildKey = <<Name.y, Name.z>>
    /\ ret.list[1].ParentKey = <<Null, Null>>
    /\ ret.list[2].ChildKey = <<Name.x>>
    /\ ret.list[2].ParentKey = <<NullString(Name.px)>>

(***************************************************************************)
(* The letter cases of a token.  The forms of a lowercase letter are the   *)
(* letters whose lowercase it is, the forms of an uppercase letter those   *)
(* whose uppercase it is: the letter in both cases and, for k, S and I,    *)
(* the Kelvin sign U+212A, the long s U+017F and the dotless i U+0131.     *)
(***************************************************************************)
LowerForms(c) ==
    IF c = 107 THEN {107, 75, 8490}
    ELSE IF c \in 97..122 THEN {c, c - 32}
    ELSE {c}

UpperForms(c) ==
    IF c = 83 THEN {83, 115, 383}
    ELSE IF c = 73 THEN {73, 105, 305}
    ELSE IF c \in 65..90 THEN {c, c + 32}
    ELSE {c}

(* The text is the token with every letter in one of its forms, the forms *)
(* being those of the lowercase or of the uppercase letters.               *)
InLetterCase(text, token, lower) ==
    LET rs == Runes(text)
    IN  /\ Len(rs) = Len(token)
        /\ \A i \in DOMAIN token :
               rs[i] \in (IF lower THEN LowerForms(token[i])
                          ELSE UpperForms(token[i]))

(* The same contents as a value of the other of the two text types.        *)
OtherText(src) ==
    [kind |-> IF src.kind = "string" THEN "[]byte" ELSE "string",
     val |-> src.val]

(* C9: IndexType.Scan of a string or a []byte that holds "c", "u" or "pk"  *)
(* in any letter case returns a nil error and leaves IndexTypeNormal,      *)
(* IndexTypeUnique or IndexTypePrimaryKey in the receiver; of any other    *)
(* text it returns an error; and the same contents as a value of the other *)
(* type give the same receiver and the same error.                         *)
C9_IndexTypeScan ==
    (scan.recv = "IndexType" /\ scan.src.kind \in {"string", "[]byte"})
    => LET x == scan.src.val
           isC == InLetterCase(x, ScanLit.c, TRUE)
           isU == InLetterCase(x, ScanLit.u, TRUE)
           isPK == InLetterCase(x, ScanLit.pk, TRUE)
       IN  /\ isC => scan.err.nil /\ t = IndexTypeNormal
           /\ isU => scan.err.nil /\ t = IndexTypeUnique
           /\ isPK => scan.err.nil /\ t = IndexTypePrimaryKey
           /\ ~(isC \/ isU \/ isPK) => ~scan.err.nil
           /\ IndexTypeScan(scan.old, OtherText(scan.src))
                = [val |-> t, err |-> scan.err]

(* Scan of the []byte "PK" has left IndexTypePrimaryKey in a receiver that *)
(* held another value.                                                     *)
C9_Witness ==
    /\ scan.recv = "IndexType"
    /\ scan.src = [kind |-> "[]byte", val |-> <<80, 75>>]
    /\ scan.old # IndexTypePrimaryKey
    /\ t = IndexTypePrimaryKey
    /\ scan.err.nil

(* C10: ForeignKeyAction.Scan of a string or a []byte that holds           *)
(* "NO ACTION", "RESTRICT", "SET NULL", "SET DEFAULT" or "CASCADE" in any  *)
(* letter case returns a nil error and leaves None, Restrict, SetNull,     *)
(* SetDefault or Cascade in the receiver; of any other text it returns an  *)
(* error; and the same contents as a value of the other type give the same *)
(* receiver and the same error.                                            *)
C10_ForeignKeyActionScan ==
    (scan.recv = "ForeignKeyAction" /\ scan.src.kind \in {"string", "[]byte"})
    => LET x == scan.src.val
           is(token) == InLetterCase(x, token, FALSE)
       IN  /\ is(ScanLit.NO_ACTION) =>
                  scan.err.nil /\ v = ForeignKeyActionNone
           /\ is(ScanLit.RESTRICT) =>
                  scan.err.nil /\ v = ForeignKeyActionRestrict
           /\ is(ScanLit.SET_NULL) =>
                  scan.err.nil /\ v = ForeignKeyActionSetNull
           /\ is(ScanLit.SET_DEFAULT) =>
                  scan.err.nil /\ v = ForeignKeyActionSetDefault
           /\ is(ScanLit.CASCADE) =>
                  scan.err.nil /\ v = ForeignKeyActionCascade
           /\ ~(\E token \in {ScanLit.NO_ACTION, ScanLit.RESTRICT,
                              ScanLit.SET_NULL, ScanLit.SET_DEFAULT,
                              ScanLit.CASCADE} : is(token))
                => ~scan.err.nil
           /\ ForeignKeyActionScan(scan.old, OtherText(scan.src))
                = [val |-> v, err |-> scan.err]

(* Scan of the string "Set Default" has left ForeignKeyActionSetDefault in *)
(* a receiver that held another value.                                     *)
C10_Witness ==
    /\ scan.recv = "ForeignKeyAction"
    /\ scan.src = [kind |-> "string",
                   val |-> <<83, 101, 116, 32, 68, 101, 102, 97, 117, 108, 116>>]
    /\ scan.old # ForeignKeyActionSetDefault
    /\ v = ForeignKeyActionSetDefault
    /\ scan.err.nil

(***************************************************************************)
(* ASCII-only folding: the bytes 'A'..'Z' to 'a'..'z', every other byte,   *)
(* so every byte of a non-ASCII character, as it is.                       *)
(***************************************************************************)
AsciiLower(s) == [i \in DOMAIN s |-> FoldByte(s[i])]

(* The literals of the enumeration a Scan was made on, in lower case.      *)
LowerLiterals(recv) ==
    IF recv = "IndexType" THEN {ScanLit.c, ScanLit.u, ScanLit.pk}
    ELSE { AsciiLower(l) : l \in {ScanLit.NO_ACTION, ScanLit.RESTRICT,
                                  ScanLit.SET_NULL, ScanLit.SET_DEFAULT,
                                  ScanLit.CASCADE} }

(* The "unsupported" error of the enumeration, for the text as supplied.   *)
Unsupported(recv, text) ==
    Failure((IF recv = "IndexType" THEN ScanLit.unsupported_IT
             ELSE ScanLit.unsupported_FKA)
              \o <<34>> \o Concat([i \in DOMAIN text |->
                                     IF text[i] \in {34, 92} THEN <<92, text[i]>>
                                     ELSE <<text[i]>>]) \o <<34>>)

(* C11: a Scan of a string or a []byte returns a nil error if and only if  *)
(* the text with A-Z mapped to a-z, and nothing else changed, is one of    *)
(* the enumeration's literals in lower case; and a text that holds a       *)
(* non-ASCII character is rejected with the "unsupported" error.           *)
C11_AsciiOnlyFolding ==
    (scan.recv # "none" /\ scan.src.kind \in {"string", "[]byte"})
    => /\ scan.err.nil <=> AsciiLower(scan.src.val) \in LowerLiterals(scan.recv)
       /\ (\E i \in DOMAIN scan.src.val : scan.src.val[i] >= 128)
            => scan.err = Unsupported(scan.recv, scan.src.val)

(* C12: a Scan of a value that is neither a string nor a []byte fails with *)
(* "invalid <Enum>: <type> <value>" and leaves the receiver alone; a Scan  *)
(* of a string or a []byte that fails, fails with "unsupported <Enum>: "   *)
(* and the text as it was supplied, in double quotes, and leaves the       *)
(* receiver alone; so neither kind of input gets the other's error.        *)
C12_DistinctScanErrors ==
    scan.recv # "none"
    => LET it == scan.recv = "IndexType"
           now == IF it THEN t ELSE v
           invalid == IF it THEN ScanLit.invalid_IT ELSE ScanLit.invalid_FKA
           unsupported == IF it THEN ScanLit.unsupported_IT
                          ELSE ScanLit.unsupported_FKA
           typeName == CASE scan.src.kind = "int" -> <<105, 110, 116>>
                         [] scan.src.kind = "nil" -> <<60, 110, 105, 108, 62>>
                         [] OTHER -> <<>>
       IN  IF scan.src.kind \in {"string", "[]byte"}
           THEN \/ scan.err.nil
                \/ /\ scan.err = Unsupported(scan.recv, scan.src.val)
                   /\ ~StartsWith(scan.err.msg, invalid)
                   /\ now = scan.old
           ELSE /\ scan.err = Failure(invalid \o typeName \o <<32>> \o scan.src.val)
                /\ ~StartsWith(scan.err.msg, unsupported)
                /\ now = scan.old

(* ForeignKeyAction.Scan of the string "Unknown" has failed with the text  *)
(* in its own letter case, on a receiver that held Cascade.                *)
C12_Witness ==
    /\ scan.recv = "ForeignKeyAction"
    /\ scan.src = [kind |-> "string", val |-> <<85, 110, 107, 110, 111, 119, 110>>]
    /\ scan.old = ForeignKeyActionCascade
    /\ v = ForeignKeyActionCascade
    /\ scan.err.msg = ScanLit.unsupported_FKA
                        \o <<34, 85, 110, 107, 110, 111, 119, 110, 34>>

(* The index a call names, as the engine finds it: none or one.            *)
IndexNamed(d, r) ==
    FindIndex(d, IF r.top THEN SearchOrder(d) ELSE FindDbName(d, r.schema),
              r.arg)

(* C13: IndexColumns returns exactly the columns the engine flags as keys  *)
(* of the index, by ascending Rank, each with IsKey true; IndexColumnsAux  *)
(* on the same connection returns these entries first, unchanged, and then *)
(* entries with IsKey false only; so the first list is a prefix of the     *)
(* second and its sub-list of the entries with IsKey true.                 *)
C13_IndexColumnsKeyPrefix ==
    (ret.op \in IndexOps /\ ret.err.nil)
    => LET key == (IF ret.top THEN IndexColumns(db, ret.arg)
                   ELSE Schema_IndexColumns(db, ret.schema, ret.arg)).list
           aux == (IF ret.top THEN IndexColumnsAux(db, ret.arg)
                   ELSE Schema_IndexColumnsAux(db, ret.schema, ret.arg)).list
           x == IndexNamed(db, ret)
           flagged == IF x = <<>> THEN <<>>
                      ELSE SelectSeq(x[1].xcols, LAMBDA c : c.key = 1)
       IN  /\ ret.list = (IF ret.op = "IndexColumns" THEN key ELSE aux)
           /\ Len(key) = Len(flagged)
           /\ \A i \in DOMAIN key :
                  /\ key[i].IsKey
                  /\ key[i].Name = flagged[i].name
                  /\ key[i].TableRank = flagged[i].cid
                  /\ key[i].Descending = (flagged[i].desc = 1)
                  /\ key[i].Collation = flagged[i].coll
           /\ \A i \in 1..(Len(key) - 1) : key[i].Rank < key[i + 1].Rank
           /\ Len(key) <= Len(aux)
           /\ SubSeq(aux, 1, Len(key)) = key
           /\ \A i \in (Len(key) + 1)..Len(aux) : ~aux[i].IsKey
           /\ key = SelectSeq(aux, LAMBDA c : c.IsKey)

(* IndexColumns has returned the two keys of idx_users, to which           *)
(* IndexColumnsAux adds the rowid.                                         *)
C13_Witness ==
    /\ ret.op = "IndexColumns"
    /\ ret.arg = Name.idx_users
    /\ ret.err.nil
    /\ Len(ret.list) = 2
    /\ Len(IndexColumnsAux(db, ret.arg).list) = 3
    /\ IndexColumnsAux(db, ret.arg).list[3].TableRank = TableRankRowID

(* C14: a NULL name of the engine stays absent.  In the result of Indexes  *)
(* every index has one ColumnNames entry per key of the index, in the      *)
(* order of the keys, and the entry of a key that is an expression has     *)
(* Valid false; in the result of IndexColumns and IndexColumnsAux the      *)
(* entry of such a key, at the key's position, has a Name with Valid false *)
(* and the TableRank TableRankExpr; in the result of ForeignKeys a         *)
(* constraint declared without parent columns has one ParentKey entry per  *)
(* child column, each with Valid false.  None of the calls fails.          *)
C14_AbsentNamesStayAbsent ==
    /\ (ret.op = "Indexes" /\ TableOf(db, ret) # <<>>)
       => /\ ret.err.nil
          /\ LET l == IndexList(db, TableOf(db, ret)[1])
             IN  /\ Len(ret.list) = Len(l)
                 /\ \A i \in DOMAIN l :
                      LET k == KeyCols(l[i])
                          names == ret.list[i].ColumnNames
                      IN  /\ ret.list[i].Name = l[i].name
                          /\ Len(names) = Len(k)
                          /\ \A j \in DOMAIN k :
                               IF k[j].cid = TableRankExpr
                               THEN ~names[j].Valid
                               ELSE names[j] = [String |-> k[j].name.String,
                                                Valid |-> TRUE]
    /\ (ret.op \in IndexOps /\ IndexNamed(db, ret) # <<>>)
       => /\ ret.err.nil
          /\ LET c == IndexNamed(db, ret)[1].xcols
             IN  \A i \in DOMAIN c :
                    (c[i].cid = TableRankExpr /\ c[i].key = 1)
                    => /\ i \in DOMAIN ret.list
                       /\ ret.list[i].Rank = i - 1
                       /\ ~ret.list[i].Name.Valid
                       /\ ret.list[i].TableRank = TableRankExpr
    /\ (ret.op = "ForeignKeys" /\ TableOf(db, ret) # <<>>)
       => /\ ret.err.nil
          /\ LET f == TableOf(db, ret)[1].fks
             IN  \A e \in Range(ret.list) :
                    \A i \in DOMAIN f :
                       (f[i].table = e.ParentTable
                          /\ \A j \in DOMAIN f[i].to : ~f[i].to[j].Valid)
                       => /\ Len(e.ParentKey) = Len(e.ChildKey)
                          /\ e.ChildKey = f[i].from
                          /\ \A j \in DOMAIN e.ParentKey : ~e.ParentKey[j].Valid

(* Indexes has returned idx_users, whose second key is an expression, with *)
(* the column name and an absent name.                                     *)
C14_Witness ==
    /\ ret.op = "Indexes"
    /\ ret.arg = Name.users
    /\ ret.err.nil
    /\ \E e \in Range(ret.list) :
          /\ e.Name = Name.idx_users
          /\ e.ColumnNames = <<NullString(Name.name), Null>>


(* The text every error of an operation begins with.                       *)
ErrorPrefix(r) ==
    L_could_not_get \o
      (CASE r.op = "SchemaNames" -> L_schema_names
         [] r.op \in NameOps -> KindOf(r.op) \o L_names
         [] OTHER -> PropertyOf(r.op) \o r.arg \o <<58, 32>>)

(* The first row of an answer that holds a text its enumeration does not   *)
(* have, 0 when there is none.                                             *)
FirstBadRow(op, rows) ==
    LET actions == {ScanLit.NO_ACTION, ScanLit.RESTRICT, ScanLit.SET_NULL,
                    ScanLit.SET_DEFAULT, ScanLit.CASCADE}
        bad == { i \in DOMAIN rows :
                   IF op = "ForeignKeys"
                   THEN rows[i][5] \notin actions \/ rows[i][6] \notin actions
                   ELSE rows[i][2] \notin {ScanLit.c, ScanLit.u, ScanLit.pk} }
    IN  IF bad = {} THEN 0 ELSE CHOOSE i \in bad : \A j \in bad : i <= j

(* The child columns, or the column names, of all the entries of a list.   *)
RECURSIVE FlatKeys(_, _)
FlatKeys(op, list) ==
    IF list = <<>> THEN <<>>
    ELSE (IF op = "ForeignKeys" THEN Head(list).ChildKey
          ELSE Head(list).ColumnNames) \o FlatKeys(op, Tail(list))

(* C15: an operation returns either a list and no error, or no list and an *)
(* error whose text begins "could not get <what> for table|index <name>: " *)
(* or "could not get <kind> names: ".  When the executor answers with an   *)
(* error, or with a row whose action or origin text is not one of the      *)
(* enumeration, ForeignKeys and Indexes return no list, however many rows  *)
(* came before, and the error ends with the executor's or the decoder's    *)
(* text; otherwise they return no error and a list that accounts for every *)
(* row of the answer, in order.                                            *)
C15_ListOrError ==
    ret.op # "none"
    => /\ ret.err.nil \/ (ret.list = <<>> /\ StartsWith(ret.err.msg, ErrorPrefix(ret)))
       /\ "answer" \in DOMAIN ret
          => LET a == ret.answer
                 bad == FirstBadRow(ret.op, a.rows)
                 text == IF ret.op = "ForeignKeys"
                         THEN IF a.rows[bad][5] \in
                                   {ScanLit.CASCADE, ScanLit.NO_ACTION}
                              THEN a.rows[bad][6] ELSE a.rows[bad][5]
                         ELSE a.rows[bad][2]
             IN  IF ~a.err.nil
                 THEN /\ ~ret.err.nil
                      /\ EndsWith(ret.err.msg, a.err.msg)
                 ELSE IF bad # 0
                 THEN /\ ~ret.err.nil
                      /\ EndsWith(ret.err.msg,
                                  (IF ret.op = "ForeignKeys"
                                   THEN ScanLit.unsupported_FKA
                                   ELSE ScanLit.unsupported_IT)
                                    \o <<34>> \o text \o <<34>>)
                 ELSE /\ ret.err.nil
                      /\ FlatKeys(ret.op, ret.list)
                           = [i \in DOMAIN a.rows |->
                                IF ret.op = "ForeignKeys" THEN a.rows[i][3]
                                ELSE a.rows[i][5]]

(* Indexes on an executor whose second row has the origin x: the first row *)
(* was good, and the call returns no list and the decoder's error.         *)
C15_Witness ==
    /\ ret.op = "Indexes"
    /\ "answer" \in DOMAIN ret
    /\ ret.arg = Name.users
    /\ Len(ret.answer.rows) = 2
    /\ FirstBadRow("Indexes", ret.answer.rows) = 2
    /\ ret.list = <<>>
    /\ ret.err = Failure(<<99, 111, 117, 108, 100, 32, 110, 111, 116, 32, 103, 101, 116, 32, 105, 110, 100, 101, 120, 101, 115, 32, 102, 111, 114, 32, 116, 97, 98, 108, 101, 32, 117, 115, 101, 114, 115, 58, 32, 117, 110, 115, 117, 112, 112, 111, 114, 116, 101, 100, 32, 73, 110, 100, 101, 120, 84, 121, 112, 101, 58, 32, 34, 120, 34>>)


(* A text that is one statement, a SELECT: it begins with the word and has *)
(* no semicolon.                                                           *)
SingleSelect(q) ==
    /\ StartsWith(q, <<83, 69, 76, 69, 67, 84>>)
    /\ \A i \in DOMAIN q : q[i] # 59

(* C16: a call, failing or not, leaves the objects of the connection and   *)
(* its attached databases as they were, every SQL text it sends is a       *)
(* single SELECT, the selectors Main, Temp and the unscoped one name       *)
(* "main", "temp" and the empty name, and the same call made again on the  *)
(* connection as the call left it returns the same list and the same       *)
(* error.                                                                  *)
C16_ReadOnlyStateless ==
    [][ (ret.op = "none" /\ ret'.op # "none")
        => /\ db'.objs = db.objs
           /\ db'.attached = db.attached
           /\ \A i \in DOMAIN ret'.sent : SingleSelect(ret'.sent[i].q)
           /\ Main = <<109, 97, 105, 110>> /\ Temp = <<116, 101, 109, 112>> /\ noSchema = <<>>
           /\ LET again == CallOf(ret'.op, ret'.top, ret'.schema, ret'.arg, db')
              IN  /\ again.list = ret'.list
                  /\ again.err = ret'.err
                  /\ again.db.objs = db.objs
      ]_vars


(* C17: with several clients calling at once on one handle and no schema   *)
(* modification, a call returns, when its last query has run, the list and *)
(* the error the whole call returns when it runs alone on the connection   *)
(* at that moment, having sent the same statements; no step of a call      *)
(* changes the objects or the attached databases of the connection, and    *)
(* the selectors Main, Temp and the unscoped one keep their names.         *)
C17_CallsDoNotInterfere ==
    [][ \A c \in Clients :
          /\ db'.objs = db.objs
          /\ db'.attached = db.attached
          /\ Main = L_main /\ Temp = L_temp /\ noSchema = <<>>
          /\ (calls[c].pc # "done" /\ calls'[c].pc = "done")
             => LET k == calls'[c]
                    alone == CallOf(k.op, k.top, k.schema, k.arg, db)
                IN  /\ k.list = alone.list
                    /\ k.err = alone.err
                    /\ k.sent = alone.sent
      ]_vars

(* Client 2 has the tables of aux while client 1 is between the two        *)
(* queries of ViewNames on Main: the second query of client 2 ran after    *)
(* the first of client 1.                                                  *)
C17_Witness ==
    /\ calls[1].pc = "query"
    /\ calls[1].op = "ViewNames"
    /\ calls[1].schema = Main
    /\ calls[2].pc = "done"
    /\ calls[2].op = "TableNames"
    /\ calls[2].schema = Name.aux
    /\ calls[2].list = <<Name.a>>
    /\ calls[2].err.nil


FixedTexts ==
    {Q_SchemaNames, Q_verify,
     Q_master_pre \o L_sqlite_master \o Q_master_post,
     Q_master_pre \o L_sqlite_temp_master \o Q_master_post,
     Q_Indexes_pre \o Q_Indexes_mid \o Q_Indexes_post,
     Q_Indexes_pre \o <<44, 32, 63>> \o Q_Indexes_mid \o <<44, 32, 63>>
       \o Q_Indexes_post}
      \cup { pre \o n \o Q_Columns_post :
               pre \in {Q_Columns_pre}, n \in {<<63>>, <<63, 44, 32, 63>>} }
      \cup { pre \o n \o Q_ForeignKeys_post :
               pre \in {Q_ForeignKeys_pre}, n \in {<<63>>, <<63, 44, 32, 63>>} }
      \cup { Q_indexColumns_pre \o n \o Q_indexColumns_where \o w
               \o Q_indexColumns_post :
               n \in {<<63>>, <<63, 44, 32, 63>>}, w \in {L_key_1, L_1_1} }

(* C19: a name listing on a Schema whose name is not empty and is not temp *)
(* in any letter case first sends the count query of verify, a fixed text  *)
(* with the name, folded by sqlower, as its one bound parameter.  When a   *)
(* database of that name is attached it then sends the catalog query with  *)
(* the name as the caller gave it before ".sqlite_master", and nothing     *)
(* else; when none is, it sends nothing more and fails.  Every other text  *)
(* the package sends, in any operation with any arguments, is one of the   *)
(* fixed texts, the caller's strings being bound parameters.               *)
C19_SplicedOnlyAfterVerify ==
    ret.op # "none"
    => LET spliced == /\ ret.op \in NameOps
                      /\ ret.schema # <<>>
                      /\ ToLower(ret.schema) # L_temp
           known == \E i \in DOMAIN DatabaseList(db) :
                       SameNameNoCase(DatabaseList(db)[i], ret.schema)
       IN  IF spliced
           THEN /\ Len(ret.sent) = IF known THEN 2 ELSE 1
                /\ ret.sent[1] = Stmt(Q_verify, <<sqlower(ret.schema)>>)
                /\ known
                   => ret.sent[2]
                        = Stmt(Q_master_pre \o ret.schema \o <<46>>
                                 \o L_sqlite_master \o Q_master_post,
                               <<KindOf(ret.op)>>)
                /\ ~known => ~ret.err.nil /\ ret.list = <<>>
           ELSE /\ Len(ret.sent) = 1
                /\ ret.sent[1].q \in FixedTexts

(* TableNames on DB("AUX") with a database attached as aux: the count      *)
(* query with the parameter aux, then the catalog query on                 *)
(* AUX.sqlite_master.                                                      *)
C19_Witness ==
    /\ ret.op = "TableNames"
    /\ ret.schema = Input.AUX
    /\ ret.err.nil
    /\ Len(ret.sent) = 2
    /\ ret.sent[1] = Stmt(Q_verify, <<Name.aux>>)
    /\ ret.sent[2].q = Q_master_pre \o Input.AUX \o <<46>> \o L_sqlite_master
                         \o Q_master_post


(* C20: verify succeeds exactly when a database is attached whose name     *)
(* equals the Schema's name once A-Z are folded to a-z on both sides, and  *)
(* the name it compares, sqlower of the Schema's name, has the length of   *)
(* the name, differs from it only where the name has one of A-Z, and is    *)
(* left as it is by sqlower.                                               *)
C20_VerifyFoldsAscii ==
    (/\ ret.op \in NameOps
     /\ ret.schema # <<>>
     /\ ToLower(ret.schema) # L_temp)
    => LET folded == ret.sent[1].args[1]
       IN  /\ ret.err.nil
                <=> \E i \in DOMAIN DatabaseList(db) :
                       SameNameNoCase(DatabaseList(db)[i], ret.schema)
           /\ folded = sqlower(ret.schema)
           /\ Len(folded) = Len(ret.schema)
           /\ \A i \in DOMAIN folded : folded[i] = FoldByte(ret.schema[i])
           /\ sqlower(folded) = folded

(* The one statement of a name listing on the temp database.               *)
TempCatalogQuery(op) ==
    Stmt(Q_master_pre \o L_sqlite_temp_master \o Q_master_post, <<KindOf(op)>>)

(* C21: a name listing on a Schema whose name is "temp" in any letter case *)
(* sends exactly one statement, the query of sqlite_temp_master with the   *)
(* kind as its parameter: no verification query, no text of the caller in  *)
(* the SQL. A Schema with any other name never sends that query. When the  *)
(* temp database holds no object of the kind the list is empty and the     *)
(* error nil.                                                              *)
C21_TempIsFixedCatalog ==
    (ret.op \in NameOps /\ ~ret.top)
    => IF SameNameNoCase(ret.schema, L_temp)
       THEN /\ ret.sent = <<TempCatalogQuery(ret.op)>>
            /\ NamesOfKind(db, L_temp, KindOf(ret.op)) = {}
                   => (ret.list = <<>> /\ ret.err.nil)
       ELSE \A i \in DOMAIN ret.sent :
                ret.sent[i].q # TempCatalogQuery(ret.op).q

(* IndexNames on the Schema "TEMP" has sent the one query and returned no  *)
(* names, the connection having objects in main only.                      *)
C21_Witness ==
    /\ ret.op = "IndexNames"
    /\ ~ret.top
    /\ ret.schema = Input.TEMP
    /\ ret.sent = <<TempCatalogQuery("IndexNames")>>
    /\ ret.list = <<>>
    /\ ret.err.nil
    /\ Def(L_main, "users") \in db.objs
    /\ \A o \in db.objs : o.schema # L_temp

(* The rows at which a run begins: the first, and every row whose key is   *)
(* not that of the row before it.                                          *)
RunStarts(keys) == { i \in DOMAIN keys : i = 1 \/ keys[i] # keys[i - 1] }

(* The k-th element of a set of numbers, in ascending order.               *)
NthOf(S, k) == CHOOSE i \in S : Cardinality({ j \in S : j < i }) = k - 1

(* The last row of the run that begins at the row s.                       *)
RunEnd(keys, s) ==
    CHOOSE e \in s..Len(keys) :
        /\ \A j \in s..e : keys[j] = keys[s]
        /\ e = Len(keys) \/ keys[e + 1] # keys[s]

(* Column c of the rows s..e, in row order.                                *)
ColumnOf(rows, c, s, e) == [i \in 1..(e - s + 1) |-> rows[s + i - 1][c]]

(* The action an engine text stands for.                                   *)
ActionOf(text) ==
    CASE text = ScanLit.RESTRICT -> ForeignKeyActionRestrict
      [] text = ScanLit.SET_NULL -> ForeignKeyActionSetNull
      [] text = ScanLit.SET_DEFAULT -> ForeignKeyActionSetDefault
      [] text = ScanLit.CASCADE -> ForeignKeyActionCascade
      [] OTHER -> ForeignKeyActionNone

(* The executor has answered the operation with rows that all decode.      *)
GoodAnswer(op) ==
    /\ ret.op = op
    /\ "answer" \in DOMAIN ret
    /\ ret.answer.err.nil
    /\ FirstBadRow(op, ret.answer.rows) = 0

(* C22: ForeignKeys returns one record per maximal run of consecutive rows *)
(* with the same id, in the order of the runs: ID, ParentTable, OnUpdate   *)
(* and OnDelete are those of the first row of the run, ChildKey and        *)
(* ParentKey the from and to columns of the rows of the run in row order.  *)
(* When the rows come ordered by id there is one record per distinct id    *)
(* and the IDs are strictly ascending.                                     *)
C22_ForeignKeysFoldRuns ==
    GoodAnswer("ForeignKeys")
    => LET rows == ret.answer.rows
           ids == [i \in DOMAIN rows |-> rows[i][1]]
           S == RunStarts(ids)
       IN  /\ Len(ret.list) = Cardinality(S)
           /\ \A k \in DOMAIN ret.list :
                  LET s == NthOf(S, k)
                      e == RunEnd(ids, s)
                      fk == ret.list[k]
                  IN  /\ fk.ID = rows[s][1]
                      /\ fk.ParentTable = rows[s][2]
                      /\ fk.OnUpdate = ActionOf(rows[s][5])
                      /\ fk.OnDelete = ActionOf(rows[s][6])
                      /\ fk.ChildKey = ColumnOf(rows, 3, s, e)
                      /\ fk.ParentKey = ColumnOf(rows, 4, s, e)
           /\ (\A i \in 1..(Len(ids) - 1) : ids[i] <= ids[i + 1])
              => /\ Len(ret.list) = Cardinality(Range(ids))
                 /\ \A k \in 1..(Len(ret.list) - 1) :
                        ret.list[k].ID < ret.list[k + 1].ID

(* Three rows ordered by id, the two of id 0 with different parent tables  *)
(* and actions: two records, the first with the parent table and the       *)
(* actions of the first row and the columns of both.                       *)
C22_Witness ==
    /\ GoodAnswer("ForeignKeys")
    /\ ret.err.nil
    /\ Len(ret.answer.rows) = 3
    /\ ret.answer.rows[1][1] = 0 /\ ret.answer.rows[1][2] = Name.parent1
    /\ ret.answer.rows[2][1] = 0 /\ ret.answer.rows[2][2] = Name.parent2
    /\ ret.answer.rows[3][1] = 1
    /\ Len(ret.list) = 2
    /\ ret.list[1].ParentTable = Name.parent1
    /\ ret.list[1].OnUpdate = ForeignKeyActionCascade
    /\ ret.list[1].ChildKey = <<Name.x, Name.y>>
    /\ ret.list[1].ParentKey = <<NullString(Name.px), Null>>
    /\ ret.list[2].ID = 1

(* The index type an engine origin stands for.                             *)
TypeOf(origin) ==
    CASE origin = ScanLit.u -> IndexTypeUnique
      [] origin = ScanLit.pk -> IndexTypePrimaryKey
      [] OTHER -> IndexTypeNormal

(* C23: Indexes returns one record per maximal run of consecutive rows     *)
(* with the same index name, in the order of the runs: Name, Type,         *)
(* IsUnique and IsPartial are those of the first row of the run,           *)
(* ColumnNames the column names of the rows of the run in row order.  When *)
(* the rows of every index come together, as the ordering by the index     *)
(* list's seq makes them, there is one record per index name.              *)
C23_IndexesFoldRuns ==
    GoodAnswer("Indexes")
    => LET rows == ret.answer.rows
           names == [i \in DOMAIN rows |-> rows[i][1]]
           S == RunStarts(names)
       IN  /\ Len(ret.list) = Cardinality(S)
           /\ \A k \in DOMAIN ret.list :
                  LET s == NthOf(S, k)
                      e == RunEnd(names, s)
                      idx == ret.list[k]
                  IN  /\ idx.Name = rows[s][1]
                      /\ idx.Type = TypeOf(rows[s][2])
                      /\ idx.IsUnique = (rows[s][3] = 1)
                      /\ idx.IsPartial = (rows[s][4] = 1)
                      /\ idx.ColumnNames = ColumnOf(rows, 5, s, e)
           /\ (\A i, j, k \in DOMAIN names :
                   (i < j /\ j < k /\ names[i] = names[k])
                   => names[j] = names[i])
              => /\ Len(ret.list) = Cardinality(Range(names))
                 /\ \A k, l \in DOMAIN ret.list :
                        k # l => ret.list[k].Name # ret.list[l].Name

(* The rows of a primary-key index, of a unique-constraint index and of a  *)
(* created index: three records, of the three types.                       *)
C23_Witness ==
    /\ GoodAnswer("Indexes")
    /\ ret.err.nil
    /\ Len(ret.answer.rows) = 3
    /\ Len(ret.list) = 3
    /\ ret.list[1].Name = Name.idx_users
    /\ ret.list[1].Type = IndexTypeNormal
    /\ ret.list[1].IsPartial
    /\ ret.list[2].Type = IndexTypeUnique
    /\ ret.list[3].Type = IndexTypePrimaryKey
    /\ ret.list[3].ColumnNames = <<Null>>

(* C24: a Scan that returns an error leaves both receivers as they were    *)
(* before the call: a value that was never assigned is still the zero      *)
(* value, the first of its enumeration, and a value an earlier Scan        *)
(* decoded is still that value.                                            *)
C24_FailedScanKeepsReceiver ==
    [][ (scan'.recv # "none" /\ ~scan'.err.nil)
        => /\ v' = v
           /\ t' = t
           /\ scan.recv = "none"
              => /\ v' = ForeignKeyActionNone /\ ForeignKeyActionNone = 0
                 /\ t' = IndexTypeNormal /\ IndexTypeNormal = 0 ]_vars

(* IndexType.Scan of the int 42 has failed on a receiver that held what an *)
(* earlier Scan decoded, PrimaryKey, and holds it still.                   *)
C24_Witness ==
    /\ scan.recv = "IndexType"
    /\ scan.src.kind = "int"
    /\ ~scan.err.nil
    /\ scan.old = IndexTypePrimaryKey
    /\ t = IndexTypePrimaryKey

(* The record of the foreign key id of a table as the engine has it, with  *)
(* a given child table.                                                    *)
ExpectedForeignKey(tbl, id, childTable) ==
    LET k == tbl.fks[Len(tbl.fks) - id]
    IN  [ID |-> id, ChildTable |-> childTable, ChildKey |-> k.from,
         ParentTable |-> k.table, ParentKey |-> k.to,
         OnUpdate |-> ActionOf(k.on_update),
         OnDelete |-> ActionOf(k.on_delete)]

(* C25: the records ForeignKeys returns for a table equal, field for field *)
(* over the seven fields, the records made of the engine's rows with the   *)
(* empty string as ChildTable.                                             *)
C25_ChildTableZero ==
    (ret.op = "ForeignKeys" /\ TableOf(db, ret) # <<>>)
    => /\ ret.err.nil
       /\ ret.list = [k \in 1..Len(TableOf(db, ret)[1].fks) |->
                        ExpectedForeignKey(TableOf(db, ret)[1], k - 1, <<>>)]

(* The text of an object-scoped operation, which depends on the operation  *)
(* and on whether the Schema has a name, and on nothing else.              *)
ObjectQuery(op, scoped) ==
    LET one == IF scoped THEN <<63, 44, 32, 63>> ELSE <<63>>
        more == IF scoped THEN <<44, 32, 63>> ELSE <<>>
    IN  CASE op = "Columns" -> Q_Columns_pre \o one \o Q_Columns_post
          [] op = "ForeignKeys" -> Q_ForeignKeys_pre \o one \o Q_ForeignKeys_post
          [] op = "Indexes" -> Q_Indexes_pre \o more \o Q_Indexes_mid \o more
                                 \o Q_Indexes_post
          [] op = "IndexColumns" -> Q_indexColumns_pre \o one
                                      \o Q_indexColumns_where \o L_key_1
                                      \o Q_indexColumns_post
          [] OTHER -> Q_indexColumns_pre \o one \o Q_indexColumns_where
                        \o L_1_1 \o Q_indexColumns_post

(* C26: Columns, ForeignKeys, Indexes, IndexColumns and IndexColumnsAux     *)
(* send one statement whose text is fixed by the operation and by whether   *)
(* the Schema has a name; the object's name is its first parameter and the  *)
(* Schema's name, when there is one, the rest (twice for Indexes); the text *)
(* has as many ? as there are parameters.  placeholdersFor of n values is   *)
(* n times ? with ", " between them, the empty text for none.              *)
C26_NamesAreParameters ==
    /\ ret.op \in ObjectOps
       => LET scoped == ret.schema # <<>>
              s == ret.sent[1]
          IN  /\ Len(ret.sent) = 1
              /\ s.q = ObjectQuery(ret.op, scoped)
              /\ s.args = <<ret.arg>>
                            \o (IF ~scoped THEN <<>>
                                ELSE IF ret.op = "Indexes"
                                THEN <<ret.schema, ret.schema>>
                                ELSE <<ret.schema>>)
              /\ CountOf(s.q, 63) = Len(s.args)
              /\ Len(s.args) = IF ~scoped THEN 1
                               ELSE IF ret.op = "Indexes" THEN 3 ELSE 2
    /\ \A n \in 0..3 :
           LET p == placeholdersFor([i \in 1..n |-> ret.arg])
           IN  /\ Len(p) = IF n = 0 THEN 0 ELSE 3 * n - 2
               /\ \A i \in DOMAIN p :
                      p[i] = CASE i % 3 = 1 -> 63
                               [] i % 3 = 2 -> 44
                               [] OTHER -> 32

(* Indexes on DB("aux") of a table name that holds SQL has sent the fixed   *)
(* text with three ? and the names as its three parameters.                 *)
C26_Witness ==
    /\ ret.op = "Indexes"
    /\ ret.schema = Name.aux
    /\ ret.arg = Input.inject_paren
    /\ ret.sent = <<Stmt(ObjectQuery("Indexes", TRUE),
                         <<Input.inject_paren, Name.aux, Name.aux>>)>>
    /\ CountOf(ret.sent[1].q, 63) = 3
    /\ ret.err.nil

(* A name of ASCII letters, digits and underscores that does not begin     *)
(* with a digit.                                                           *)
BareName(s) ==
    /\ s # <<>>
    /\ \A i \in DOMAIN s : s[i] \in (97..122) \cup (65..90) \cup (48..57) \cup {95}
    /\ s[1] \notin 48..57

(* The databases of the connection the Schema's name denotes once A-Z are  *)
(* folded.                                                                 *)
Denoted(d, name) ==
    { n \in Range(DatabaseList(d)) : SameNameNoCase(n, name) }

(* C27: a name listing on a Schema whose name, not temp, is the name of a   *)
(* database of the connection in some letter case sends, after the count    *)
(* query, "SELECT name FROM <name>.sqlite_master WHERE type = ? ORDER BY     *)
(* name" with the name byte for byte as the caller gave it, not as the       *)
(* database is listed and without quotes around it.  When the name is a     *)
(* bare identifier the call returns the names of that database's objects    *)
(* of the kind, and when no attached database has a name that is not a      *)
(* bare identifier the text is one statement.                               *)
C27_SplicedAsSupplied ==
    (/\ ret.op \in NameOps
     /\ ret.schema # <<>>
     /\ ~SameNameNoCase(ret.schema, L_temp)
     /\ Denoted(db, ret.schema) # {})
    => LET at == Len(Q_master_pre)
           n == Len(ret.schema)
       IN  /\ Len(ret.sent) = 2
           /\ Len(ret.sent[2].q)
                = at + n + 1 + Len(L_sqlite_master) + Len(Q_master_post)
           /\ StartsWith(ret.sent[2].q, Q_master_pre)
           /\ SubSeq(ret.sent[2].q, at + 1, at + n) = ret.schema
           /\ ret.sent[2].q[at + n + 1] = 46
           /\ EndsWith(ret.sent[2].q, L_sqlite_master \o Q_master_post)
           /\ ret.sent[2].args = <<KindOf(ret.op)>>
           /\ BareName(ret.schema)
              => /\ ret.err.nil
                 /\ \E d \in Denoted(db, ret.schema) :
                        Range(ret.list) = NamesOfKind(db, d, KindOf(ret.op))
           /\ (\A i \in DOMAIN db.attached : BareName(db.attached[i]))
              => SingleSelect(ret.sent[2].q)

(* ViewNames on DB("AUX"), the database being attached and listed as aux,   *)
(* has sent the text with AUX in it and returned the view of aux.           *)
C27_Witness ==
    /\ ret.op = "ViewNames"
    /\ ret.schema = Input.AUX
    /\ Name.aux \in Range(db.attached)
    /\ Input.AUX \notin Range(db.attached)
    /\ Len(ret.sent) = 2
    /\ Contains(ret.sent[2].q, Input.AUX \o <<46>>)
    /\ ~Contains(ret.sent[2].q, Name.aux)
    /\ ret.list = <<Name.view_a>>
    /\ Def(Name.aux, "view_a") \in db.objs

(* What the loop of an operation makes of the first k rows of the answer,  *)
(* each scanned as queryRows scans it.                                     *)
FoldedPrefix(op, rows, k, tableName) ==
    IF op = "ForeignKeys"
    THEN FoldForeignKeys([i \in 1..k |-> ScanRow("ForeignKeyRow", rows[i]).val],
                         <<>>, 0, tableName)
    ELSE FoldIndexes([i \in 1..k |-> ScanRow("IndexRow", rows[i]).val],
                     <<>>, 0)

(* The entries of a record: the child and parent columns of a foreign key  *)
(* in pairs, the column names of an index.                                 *)
EntriesOf(op, rec) ==
    IF op = "ForeignKeys"
    THEN [i \in DOMAIN rec.ChildKey |-> <<rec.ChildKey[i], rec.ParentKey[i]>>]
    ELSE rec.ColumnNames

(* The entry a row contributes.                                            *)
EntryOf(op, row) == IF op = "ForeignKeys" THEN <<row[3], row[4]>> ELSE row[5]

(* C28: the loops of ForeignKeys and Indexes neither lose nor duplicate    *)
(* rows.  Every record has at least one entry, ChildKey and ParentKey of a *)
(* record have the same length, the entries of the records taken in output *)
(* order are the rows' entries in row order (so there are as many as       *)
(* rows), and each step of the loop changes the output in its last record  *)
(* only: the records before it stay as they were and the last record ends  *)
(* with the entry of the row of that step.                                 *)
C28_FoldKeepsEveryRow ==
    \A op \in {"ForeignKeys", "Indexes"} :
        GoodAnswer(op)
        => LET rows == ret.answer.rows
               n == Len(rows)
           IN  /\ ret.list = FoldedPrefix(op, rows, n, ret.arg)
               /\ \A k \in DOMAIN ret.list :
                      /\ Len(EntriesOf(op, ret.list[k])) >= 1
                      /\ op = "ForeignKeys"
                         => Len(ret.list[k].ChildKey) = Len(ret.list[k].ParentKey)
               /\ Concat([k \in DOMAIN ret.list |-> EntriesOf(op, ret.list[k])])
                    = [i \in 1..n |-> EntryOf(op, rows[i])]
               /\ \A k \in 1..n :
                      LET before == FoldedPrefix(op, rows, k - 1, ret.arg)
                          after == FoldedPrefix(op, rows, k, ret.arg)
                          last == EntriesOf(op, after[Len(after)])
                      IN  /\ Len(after) \in {Len(before), Len(before) + 1}
                          /\ \A i \in 1..(Len(after) - 1) : after[i] = before[i]
                          /\ last[Len(last)] = EntryOf(op, rows[k])
                          /\ Len(after) = Len(before)
                             => SubSeq(last, 1, Len(last) - 1)
                                  = EntriesOf(op, before[Len(before)])

(* Indexes answered with two rows of one index and a row of another: two   *)
(* records, of two columns and of one, three entries for three rows.       *)
C28_Witness ==
    /\ GoodAnswer("Indexes")
    /\ Len(ret.answer.rows) = 3
    /\ ret.answer.rows[1][1] = ret.answer.rows[2][1]
    /\ ret.answer.rows[3][1] # ret.answer.rows[2][1]
    /\ Len(ret.list) = 2
    /\ Len(ret.list[1].ColumnNames) = 2
    /\ Len(ret.list[2].ColumnNames) = 1
    /\ ret.list[1].ColumnNames[2] = ret.answer.rows[2][5]

=============================================================================
